---- MODULE Spec2Model ----
(***************************************************************************)
(* A model of the glem conversational retrieval agent:                     *)
(*   core/tools.py        the tool executor (KnowledgeBaseTools),          *)
(*   core/chat_engine.py  the turn loop (ChatAlita.run),                   *)
(*   utils/search_utils.py the index and the query helpers.                *)
(* Texts are TLA+ strings and are matched character by character, the way  *)
(* the regular expressions of the source match them.                       *)
(***************************************************************************)
EXTENDS Integers, Sequences, FiniteSets, TLC

VARIABLES
    customer_id,    \* KnowledgeBaseTools.customer_id, bound at construction
    indexPresent,   \* the *.faiss / *_meta.json files exist (VectorIndex._load)
    dataPresent,    \* data/order_database.json exists (load_json)
    ranking,        \* the order in which the orders index ranks its records
    orders,         \* the records of data/order_database.json
    actionLog,      \* the lines of data/action_log.jsonl
    lastCall,       \* the most recent call made to the tool executor
    lastResult,     \* what that call returned (or the exception it raised)
    searched,       \* whether that call ran GuardedOrderDatabaseTool.search
    pc,             \* ChatAlita.run: where the turn loop stands
    user_input,     \* ChatAlita.run: the utterance of the current turn
    plan,           \* ChatAlita.run: the routing plan of the current turn
    tool_output,    \* ChatAlita.run: the outputs of the executed tool calls
    history,        \* ChatAlita.run: the message history
    current_focus,  \* ChatAlita.run: the product under discussion
    events,         \* the external calls of the current turn, in order
    reply,          \* the reply printed last
    replies,        \* replies printed for the current turn
    turns,          \* inputs read so far
    window,         \* build_sliding_window: its arguments and what it returned
    turn_matches,   \* ChatAlita.run: the catalog matches of the current turn
    engine,         \* AlitaEngine: the key pool and the model call in progress
    parsed,         \* parse_query: the query it was given and what it returned
    tts             \* TTSRunner: its fields, its worker threads and its callers

toolVars == <<customer_id, indexPresent, dataPresent, ranking, orders,
              actionLog, lastCall, lastResult, searched>>
runVars  == <<pc, user_input, plan, tool_output, history, current_focus, events,
              reply, replies, turns, window, turn_matches, engine, parsed, tts>>
vars     == <<customer_id, indexPresent, dataPresent, ranking, orders,
              actionLog, lastCall, lastResult, searched,
              pc, user_input, plan, tool_output, history, current_focus, events,
              reply, replies, turns, window, turn_matches, engine, parsed, tts>>

\* Python's None, where a text or an id is expected
None == "<none>"

-----------------------------------------------------------------------------
(* Texts *)

Char(s, i) == SubSeq(s, i, i)

Digits == {"0", "1", "2", "3", "4", "5", "6", "7", "8", "9"}

UpperLetters ==
    {"A", "B", "C", "D", "E", "F", "G", "H", "I", "J", "K", "L", "M",
     "N", "O", "P", "Q", "R", "S", "T", "U", "V", "W", "X", "Y", "Z"}

LowerLetters ==
    {"a", "b", "c", "d", "e", "f", "g", "h", "i", "j", "k", "l", "m",
     "n", "o", "p", "q", "r", "s", "t", "u", "v", "w", "x", "y", "z"}

LowerOf ==
    [c \in UpperLetters |->
        CASE c = "A" -> "a" [] c = "B" -> "b" [] c = "C" -> "c" [] c = "D" -> "d"
          [] c = "E" -> "e" [] c = "F" -> "f" [] c = "G" -> "g" [] c = "H" -> "h"
          [] c = "I" -> "i" [] c = "J" -> "j" [] c = "K" -> "k" [] c = "L" -> "l"
          [] c = "M" -> "m" [] c = "N" -> "n" [] c = "O" -> "o" [] c = "P" -> "p"
          [] c = "Q" -> "q" [] c = "R" -> "r" [] c = "S" -> "s" [] c = "T" -> "t"
          [] c = "U" -> "u" [] c = "V" -> "v" [] c = "W" -> "w" [] c = "X" -> "x"
          [] c = "Y" -> "y" [] c = "Z" -> "z"]

UpperOf ==
    [c \in LowerLetters |-> CHOOSE u \in UpperLetters : LowerOf[u] = c]

LowerChar(c) == IF c \in UpperLetters THEN LowerOf[c] ELSE c
UpperChar(c) == IF c \in LowerLetters THEN UpperOf[c] ELSE c

RECURSIVE Lower(_)
\* str.lower()
Lower(s) == IF s = "" THEN "" ELSE LowerChar(Char(s, 1)) \o Lower(SubSeq(s, 2, Len(s)))

RECURSIVE Upper(_)
\* str.upper()
Upper(s) == IF s = "" THEN "" ELSE UpperChar(Char(s, 1)) \o Upper(SubSeq(s, 2, Len(s)))

IsSpace(c) == c = " "

RECURSIVE LStrip(_)
LStrip(s) == IF s # "" /\ IsSpace(Char(s, 1)) THEN LStrip(SubSeq(s, 2, Len(s))) ELSE s

RECURSIVE RStrip(_)
RStrip(s) ==
    IF s # "" /\ IsSpace(Char(s, Len(s))) THEN RStrip(SubSeq(s, 1, Len(s) - 1)) ELSE s

\* str.strip()
Strip(s) == RStrip(LStrip(s))

\* `sub in s`
Contains(s, sub) ==
    \E i \in 1..(Len(s) - Len(sub) + 1) : SubSeq(s, i, i + Len(sub) - 1) = sub

StartsWith(s, p) == Len(s) >= Len(p) /\ SubSeq(s, 1, Len(p)) = p

\* \w of the regular expressions
IsWordChar(c) == c \in Digits \cup LowerLetters \cup UpperLetters \cup {"_"}

\* \b before position i, and after position j, of t
BoundaryBefore(t, i) == i = 1 \/ ~IsWordChar(Char(t, i - 1))
BoundaryAfter(t, j) == j = Len(t) \/ ~IsWordChar(Char(t, j + 1))

\* \b<letter>\d{4}\b matches t at position i
IdAt(t, i, letter) ==
    /\ i + 4 <= Len(t)
    /\ Char(t, i) = letter
    /\ \A j \in (i + 1)..(i + 4) : Char(t, j) \in Digits
    /\ BoundaryBefore(t, i)
    /\ BoundaryAfter(t, i + 4)

Min(S) == CHOOSE x \in S : \A y \in S : x <= y

\* re.search(r"\b<letter>\d{4}\b", text.lower()), group(0).upper(); None without a match
ExtractId(text, letter) ==
    IF text = None \/ text = "" THEN None
    ELSE LET t == Lower(text)
             at == {i \in 1..Len(t) : IdAt(t, i, letter)}
         IN  IF at = {} THEN None ELSE Upper(SubSeq(t, Min(at), Min(at) + 4))

_extract_order_id(text) == ExtractId(text, "o")
_extract_product_id(text) == ExtractId(text, "p")
_extract_customer_id(text) == ExtractId(text, "c")

\* normalize_query: (query or "").lower().strip()
normalize_query(query) == IF query = None THEN "" ELSE Strip(Lower(query))

\* re.fullmatch(r"<letter>\d{4}", normalized)
FullMatchId(normalized, letter) ==
    /\ Len(normalized) = 5
    /\ Char(normalized, 1) = letter
    /\ \A j \in 2..5 : Char(normalized, j) \in Digits

-----------------------------------------------------------------------------
(* The record store and the index *)

\* data/order_database.json: order_status is one of Placed, Shipped, Delivered,
\* Cancelled, Returned; products are the line items
OrdersFile ==
    << [order_id |-> "O0001", customer_id |-> "C0001", order_status |-> "Placed",
        products |-> {"P0001"}],
       [order_id |-> "O0002", customer_id |-> "C0001", order_status |-> "Delivered",
        products |-> {"P0001", "P0002"}],
       [order_id |-> "O0003", customer_id |-> "C0002", order_status |-> "Shipped",
        products |-> {"P0002"}],
       [order_id |-> "O0004", customer_id |-> "C0002", order_status |-> "Delivered",
        products |-> {"P0001"}],
       [order_id |-> "O0005", customer_id |-> "C0001", order_status |-> "Cancelled",
        products |-> {"P0001"}],
       [order_id |-> "O0006", customer_id |-> "C0002", order_status |-> "Returned",
        products |-> {"P0002"}] >>

\* the customer a session can be bound to (main.py CUSTOMER_ID), or none
Customers == {None, "C0001", "C0002"}

\* rankings the embedding index can give the order records for a query
Rankings ==
    { <<1, 2, 3, 4, 5, 6>>, <<3, 1, 4, 2, 6, 5>>, <<3, 4, 6, 1, 2, 5>> }

\* the catalog records a catalog search can come back with
CatalogHits ==
    { <<>>,
      << [product_id |-> "P0001", product_name |-> "Luma Monitor Pro",
          return_eligible |-> TRUE] >>,
      << [product_id |-> "P0001", product_name |-> "Luma Monitor Pro",
          return_eligible |-> TRUE],
         [product_id |-> "P0002", product_name |-> "Zeta Monitor",
          return_eligible |-> FALSE] >> }

FaqItems == << [faq_id |-> "F1"], [faq_id |-> "F2"] >>
PolicyItems == << [section |-> "returns"], [section |-> "cancellation"] >>

Take(s, n) == SubSeq(s, 1, IF n < Len(s) THEN n ELSE Len(s))

RECURSIVE Filter(_, _)
\* [x for x in s if Keep[x]], Keep a set of the records kept
Filter(s, Keep) ==
    IF s = <<>> THEN <<>>
    ELSE (IF Head(s) \in Keep THEN <<Head(s)>> ELSE <<>>) \o Filter(Tail(s), Keep)

SeqToSet(s) == {s[i] : i \in DOMAIN s}

\* the value of a call that returns, and of one that raises FileNotFoundError
Returned(v) == [raised |-> FALSE, value |-> v]
NotFound == [raised |-> TRUE, value |-> <<>>]

\* an integer outside 1..20 replaced by the default
ClampOrDefault(k) == IF k < 1 \/ k > 20 THEN 5 ELSE k

\* _clamp_k on an integer: max(1, min(20, k))
ClampInt(k) == IF k < 1 THEN 1 ELSE IF k > 20 THEN 20 ELSE k

\* every value clamped as if int() took it
ClampWithoutDefault(k) == ClampInt(k.v)

\* _clamp_k on an argument of a tool call: [t |-> "int", v |-> n], or a value
\* int() refuses (t is "none" for None, "text" for a non-numeric string)
_clamp_k(k) == IF k.t = "int" THEN ClampInt(k.v) ELSE 5

\* VectorIndex.search over a collection ranked as `ranked`
VectorIndexSearch(ranked, query, k) ==
    IF query = "" THEN Returned(<<>>)
    ELSE IF ~indexPresent THEN NotFound
    ELSE Returned(Take(ranked, IF k < 1 THEN 1 ELSE k))

\* VectorIndex.items
IndexItems(items) == IF indexPresent THEN Returned(items) ELSE NotFound

RankedOrders == [i \in DOMAIN ranking |-> orders[ranking[i]]]

\* GuardedOrderDatabaseTool._matches_current_customer
_matches_current_customer(value) ==
    IF customer_id = None THEN TRUE
    ELSE IF value = None \/ value = "" THEN FALSE
    ELSE normalize_query(value) = normalize_query(customer_id)

OwnOrders(s) == {o \in SeqToSet(s) : _matches_current_customer(o.customer_id)}

\* OrderDatabaseTool.search, the search of the parent class: no customer scoping
OrderDatabaseSearch(query, k) ==
    LET normalized == normalize_query(query)
        items == IndexItems(orders)
    IN  IF FullMatchId(normalized, "c")
        THEN IF items.raised THEN Returned(<<>>)
             ELSE Returned(Take(Filter(items.value,
                      {o \in SeqToSet(items.value) :
                          normalize_query(o.customer_id) = normalized}), ClampInt(k)))
        ELSE IF FullMatchId(normalized, "o")
        THEN IF items.raised THEN Returned(<<>>)
             ELSE Returned(Take(Filter(items.value,
                      {o \in SeqToSet(items.value) :
                          normalize_query(o.order_id) = normalized}), ClampInt(k)))
        ELSE VectorIndexSearch(RankedOrders, query, k)

\* GuardedOrderDatabaseTool.search
GuardedOrderSearch(query, k) ==
    LET normalized == normalize_query(query)
        requested_customer == _extract_customer_id(query)
        items == IndexItems(orders)
    IN  IF requested_customer # None /\ ~_matches_current_customer(requested_customer)
        THEN Returned(<<>>)
        ELSE IF FullMatchId(normalized, "c")
        THEN IF ~_matches_current_customer(normalized) THEN Returned(<<>>)
             ELSE IF items.raised THEN Returned(<<>>)
             ELSE Returned(Take(Filter(items.value,
                      {o \in SeqToSet(items.value) :
                          normalize_query(o.customer_id) = normalized}), ClampInt(k)))
        ELSE IF FullMatchId(normalized, "o")
        THEN IF items.raised THEN Returned(<<>>)
             ELSE LET results == Filter(items.value,
                          {o \in SeqToSet(items.value) :
                              normalize_query(o.order_id) = normalized})
                  IN  Returned(Take(IF customer_id # None
                                    THEN Filter(results, OwnOrders(results))
                                    ELSE results, ClampInt(k)))
        ELSE LET found == VectorIndexSearch(RankedOrders, query, k)
             IN  IF found.raised THEN NotFound
                 ELSE Returned(IF customer_id # None
                               THEN Filter(found.value, OwnOrders(found.value))
                               ELSE found.value)

-----------------------------------------------------------------------------
(* What a tool call gives back *)

\* a descriptive string
Text(t) ==
    [kind |-> "text", text |-> t, items |-> <<>>, faq |-> <<>>,
     status |-> None, reason |-> None, ticket_id |-> None]

\* json.dumps of a list of records
Records(items) ==
    [kind |-> "records", text |-> None, items |-> items, faq |-> <<>>,
     status |-> None, reason |-> None, ticket_id |-> None]

\* json.dumps of {"catalog": ..., "faq": ...}
Combined(catalog, faq) ==
    [kind |-> "combined", text |-> None, items |-> catalog, faq |-> faq,
     status |-> None, reason |-> None, ticket_id |-> None]

\* json.dumps of {"status", "message", "reason", "ticket_id"}
Payload(status, message, reason, ticket_id) ==
    [kind |-> "payload", text |-> message, items |-> <<>>, faq |-> <<>>,
     status |-> status, reason |-> reason, ticket_id |-> ticket_id]

\* an exception that leaves the call
Raised(exc) ==
    [kind |-> "raise", text |-> exc, items |-> <<>>, faq |-> <<>>,
     status |-> None, reason |-> None, ticket_id |-> None]

NoResult == Text(None)

AccessDenied == "Access denied. You can only access your own orders."
MissingIndex == "Missing index files. Run scripts/build_faiss_indexes.py first."

\* VectorSearchTool.retrieve, over the outcome of self.search
VectorRetrieve(found, empty_message) ==
    IF found.raised THEN Text(MissingIndex)
    ELSE IF found.value = <<>> THEN Text(empty_message)
    ELSE Records(found.value)

\* CatalogSearchTool.search; hits are the records left by the index and the filters.
\* parse_query's cleaned_query is `cleaned or text`, so after normalize_query it is
\* empty exactly when the query is blank
CatalogSearch(query, k, hits) ==
    LET cleaned_query == normalize_query(query)
    IN  IF cleaned_query = ""
        THEN IF ~indexPresent THEN Returned(<<>>) ELSE Returned(Take(hits, ClampInt(k)))
        ELSE IF ~indexPresent THEN NotFound
        ELSE Returned(Take(hits, ClampInt(k)))

\* KnowledgeBaseTools._is_other_customer_query
_is_other_customer_query(query) ==
    IF query = None \/ query = "" \/ customer_id = None THEN FALSE
    ELSE LET requested == _extract_customer_id(query)
         IN  IF requested = None THEN FALSE
             ELSE normalize_query(requested) # normalize_query(customer_id)

generic_orders ==
    {"orders", "order", "my orders", "order history", "previous orders",
     "recent orders", "recent order", "my recent orders", "order list",
     "my order list"}

\* the query handed on as it came
QueryAsGiven(query) == query

\* the query KnowledgeBaseTools.retrieve hands to self.orders.retrieve
RetrieveOrdersQuery(query) ==
    LET normalized == normalize_query(query)
    IN  IF normalized \in generic_orders
        THEN (IF customer_id # None THEN customer_id ELSE query)
        ELSE IF /\ customer_id # None
                /\ Contains(normalized, "order")
                /\ _extract_order_id(query) = None
                /\ _extract_customer_id(query) = None
        THEN customer_id
        ELSE query

\* KnowledgeBaseTools.retrieve: [result, searched]
retrieve(query, mode0, k, hits) ==
    LET mode == Strip(Lower(IF mode0 = None \/ mode0 = "" THEN "catalog" ELSE mode0))
    IN  IF mode \in {"catalog", "products"}
        THEN [result |-> VectorRetrieve(CatalogSearch(query, k, hits),
                                        "No matching products found."),
              searched |-> FALSE]
        ELSE IF mode \in {"faq", "faqs"}
        THEN [result |-> VectorRetrieve(VectorIndexSearch(FaqItems, query, k),
                                        "No matching FAQs found."),
              searched |-> FALSE]
        ELSE IF mode \in {"policy", "company_policy"}
        THEN [result |-> VectorRetrieve(VectorIndexSearch(PolicyItems, query, k),
                                        "No matching policy entries found."),
              searched |-> FALSE]
        ELSE IF mode \in {"orders", "order"}
        THEN IF _is_other_customer_query(query)
             THEN [result |-> Text(AccessDenied), searched |-> FALSE]
             ELSE [result |-> VectorRetrieve(
                                  GuardedOrderSearch(RetrieveOrdersQuery(query), k),
                                  "No matching orders found."),
                   searched |-> TRUE]
        ELSE IF mode \in {"catalog+faq", "catalog_faq", "catalog+faqs"}
        THEN LET catalog == CatalogSearch(query, k, hits)
                 faq == VectorIndexSearch(FaqItems, query, k)
             IN  [result |-> IF catalog.raised \/ faq.raised
                             THEN Raised("FileNotFoundError")
                             ELSE Combined(catalog.value, faq.value),
                  searched |-> FALSE]
        ELSE [result |-> Text("Unknown mode"), searched |-> FALSE]

-----------------------------------------------------------------------------
(* cancel_order and initiate_return *)

\* load_json(ORDERS_PATH, []): the default when the file is not found
LoadOrders == IF dataPresent THEN orders ELSE <<>>

\* KnowledgeBaseTools._find_order: the position of the first record with that
\* order_id, 0 for None
_find_order(order_id) ==
    LET at == {i \in DOMAIN LoadOrders : LoadOrders[i].order_id = order_id}
    IN  IF at = {} THEN 0 ELSE Min(at)

\* an ownership test that lets every order through
BelongsToAnyone(order, customer) == TRUE

\* KnowledgeBaseTools._order_belongs_to_customer
_order_belongs_to_customer(order, customer) ==
    IF customer = None \/ customer = "" THEN FALSE
    ELSE normalize_query(order.customer_id) = normalize_query(customer)

\* the payload _log_action writes (without its timestamp)
LogEntry(action, order_id, product_id, result, message, ticket_id) ==
    [action |-> action, customer_id |-> customer_id, order_id |-> order_id,
     product_id |-> product_id, result |-> result, reason |-> message,
     ticket_id |-> ticket_id]

\* a log that keeps approvals only
LogApprovalsOnly(log, entry) == IF entry.result = "approved" THEN Append(log, entry) ELSE log

\* a log opened for writing instead of appending
LogOverwrite(log, entry) == <<entry>>

\* KnowledgeBaseTools._log_action: one line appended to action_log.jsonl
_log_action(log, entry) == Append(log, entry)

CancelAllowed == {"Placed", "Shipped"}

\* the reason of a status rejection
CancelReason(status) ==
    "Order status is " \o status \o ", only Placed or Shipped can be cancelled."
ReturnReason(status) ==
    "Order status is " \o status \o ", only Delivered orders can be returned."

\* a line-item test that lets every product through
HasAnyLineItem(order, product_id) == TRUE

\* any(p.get("product_id") == product_id for p in order.get("products", []))
HasLineItem(order, product_id) == product_id \in order.products

\* a reason that never reads the order's status
StatusUnknown(order) == "Unknown"

\* order.get("order_status") or "Unknown"
StatusOrUnknown(order) ==
    IF order.order_status = None \/ order.order_status = "" THEN "Unknown"
    ELSE order.order_status

\* KnowledgeBaseTools.cancel_order: the payload returned and the entry logged
cancel_order(order_id, hex) ==
    LET at == _find_order(order_id)
        order == LoadOrders[at]
        Reject(message, reason, logged) ==
            [result |-> Payload("rejected", message, reason, None),
             entry |-> LogEntry("cancel_order", order_id, None, "rejected", logged, None)]
    IN  IF at = 0 THEN Reject("Order not found.", None, "Order not found.")
        ELSE IF customer_id # None /\ ~_order_belongs_to_customer(order, customer_id)
        THEN Reject("Order does not belong to this customer.", None,
                    "Order does not belong to this customer.")
        ELSE IF order.order_status \notin CancelAllowed
        THEN Reject("Order is not eligible for cancellation.",
                    CancelReason(StatusOrUnknown(order)),
                    CancelReason(StatusOrUnknown(order)))
        ELSE [result |-> Payload("approved", "Cancellation request submitted.", None,
                                 "CAN-" \o hex),
              entry |-> LogEntry("cancel_order", order_id, None, "approved",
                                 "Cancellation request submitted.", "CAN-" \o hex)]

\* KnowledgeBaseTools.initiate_return: the payload returned and the entry logged
initiate_return(order_id, product_id, hex) ==
    LET at == _find_order(order_id)
        order == LoadOrders[at]
        Reject(message, reason, logged) ==
            [result |-> Payload("rejected", message, reason, None),
             entry |-> LogEntry("initiate_return", order_id, product_id, "rejected",
                                logged, None)]
    IN  IF at = 0 THEN Reject("Order not found.", None, "Order not found.")
        ELSE IF customer_id # None /\ ~_order_belongs_to_customer(order, customer_id)
        THEN Reject("Order does not belong to this customer.", None,
                    "Order does not belong to this customer.")
        ELSE IF order.order_status # "Delivered"
        THEN Reject("Order is not eligible for return.",
                    ReturnReason(StatusOrUnknown(order)),
                    ReturnReason(StatusOrUnknown(order)))
        ELSE IF ~HasLineItem(order, product_id)
        THEN Reject("Product not found in order.", None, "Product not found in order.")
        ELSE [result |-> Payload("approved", "Return request submitted.", None,
                                 "RET-" \o hex),
              entry |-> LogEntry("initiate_return", order_id, product_id, "approved",
                                 "Return request submitted.", "RET-" \o hex)]

-----------------------------------------------------------------------------
(* execute_tool_call *)

\* the value True of an argument; anything else is a value that `is not True`
PyTrue == "True"

\* a gate that tests the truth value of confirm, not its identity with True
ConfirmedTruthy(args) == args.confirm \in {PyTrue, "true"}

\* a gate that lets every call through
ConfirmedAlways(args) == TRUE

\* args.get("confirm") is True
Confirmed(args) == args.confirm = PyTrue

\* _confirmation_required
_confirmation_required(action) ==
    Payload("rejected", "Confirmation required before processing this request.",
            "confirmation_required:" \o action, None)

\* x or y, for texts
Or(x, y) == IF x = None \/ x = "" THEN y ELSE x

\* args.get("k", 5)
ArgK(args) == IF args.k.t = "absent" THEN [t |-> "int", v |-> 5] ELSE args.k

\* the query execute_tool_call hands to self.retrieve
ExecuteOrdersQuery(query) ==
    IF /\ customer_id # None
       /\ Contains(normalize_query(query), "order")
       /\ _extract_order_id(query) = None
       /\ _extract_customer_id(query) = None
    THEN customer_id
    ELSE query

\* KnowledgeBaseTools.execute_tool_call: [result, searched, log]
execute_tool_call(tool_name0, args, default_query, hits, hex, log) ==
    LET tool_name == Strip(IF tool_name0 = None THEN "" ELSE tool_name0)
        Out(result, didSearch, newLog) ==
            [result |-> result, searched |-> didSearch, log |-> newLog]
    IN  IF tool_name = "retrieve"
        THEN LET query == Or(args.query, default_query)
                 mode == Or(args.mode, "catalog")
                 k == _clamp_k(ArgK(args))
             IN  IF mode \in {"orders", "order"} /\ _is_other_customer_query(query)
                 THEN Out(Text(AccessDenied), FALSE, log)
                 ELSE LET got == retrieve(IF mode \in {"orders", "order"}
                                          THEN ExecuteOrdersQuery(query) ELSE query,
                                          mode, k, hits)
                      IN  Out(got.result, got.searched, log)
        ELSE IF tool_name = "cancel_order"
        THEN IF ~Confirmed(args)
             THEN Out(_confirmation_required("cancel_order"), FALSE, log)
             ELSE LET order_id == Or(args.order_id, _extract_order_id(default_query))
                  IN  IF order_id = None \/ order_id = ""
                      THEN Out(Text("Missing order_id for cancellation."), FALSE, log)
                      ELSE LET done == cancel_order(order_id, hex)
                           IN  Out(done.result, FALSE, _log_action(log, done.entry))
        ELSE IF tool_name = "initiate_return"
        THEN IF ~Confirmed(args)
             THEN Out(_confirmation_required("initiate_return"), FALSE, log)
             ELSE LET order_id == Or(args.order_id, _extract_order_id(default_query))
                      product_id == Or(args.product_id,
                                       _extract_product_id(default_query))
                  IN  IF order_id = None \/ order_id = "" \/ product_id = None
                         \/ product_id = ""
                      THEN Out(Text("Missing order_id or product_id for return."),
                               FALSE, log)
                      ELSE LET done == initiate_return(order_id, product_id, hex)
                           IN  Out(done.result, FALSE, _log_action(log, done.entry))
        ELSE Out(Text("Unknown tool"), FALSE, log)

-----------------------------------------------------------------------------
(* Calls made to the tool executor *)

Args(query, mode, k, order_id, product_id, confirm) ==
    [query |-> query, mode |-> mode, k |-> k, order_id |-> order_id,
     product_id |-> product_id, confirm |-> confirm]

KAbsent == [t |-> "absent", v |-> 0]
KInt(n) == [t |-> "int", v |-> n]
KText == [t |-> "text", v |-> 0]

Call(tool, args, default_query) ==
    [tool |-> tool, args |-> args, default_query |-> default_query]

NoCall == Call(None, Args(None, None, KAbsent, None, None, "absent"), "")

\* queries of mode=orders
OrderQueries ==
    {"C0001", "c0002", "O0001", "o0003", "O9999", "my orders",
     "where is my order", "C0001 C0002", "C0002 and C0001",
     "status of O0001 for C0002", "xC0002 list", "monitor", ""}

\* utterances a call can fall back on
DefaultQueries == {"", "where is my order", "orders of C0002", "track O0003"}

PlainArgs(q, m, k) == Args(q, m, k, None, None, "absent")

RetrieveCalls ==
    {Call("retrieve", PlainArgs(q, "orders", KAbsent), "") : q \in OrderQueries}
    \cup {Call("retrieve", PlainArgs(q, "ORDERS", KInt(1)), "") :
            q \in {"c0002", "my orders", "monitor"}}
    \cup {Call("retrieve", PlainArgs(q, "orders", k), "") :
            q \in {"monitor", "C0001"}, k \in {KInt(1), KInt(2)}}
    \cup {Call("retrieve", PlainArgs(None, "orders", KAbsent), d) : d \in DefaultQueries}
    \cup {Call("retrieve", PlainArgs(q, m, KAbsent), "") :
            q \in {"monitor", "", "  "},
            m \in {"catalog", "faq", "policy", "catalog+faq", "stock", None}}
    \cup {Call("retrieve", PlainArgs("monitor", m, k), "") :
            m \in {"catalog", "faq"}, k \in {KInt(0), KInt(50), KText}}
    \cup {Call("retrieve", PlainArgs("monitor", m, k), "") :
            m \in {"orders", "catalog+faq"},
            k \in {KInt(-3), KInt(0), KInt(1), KInt(20), KInt(21), KInt(50), KText}}

OtherCalls == {Call(t, PlainArgs(None, None, KAbsent), "") : t \in {"lookup", "", None}}

ActionArgs(order_id, product_id, confirm) ==
    Args(None, None, KAbsent, order_id, product_id, confirm)

CancelCalls ==
    {Call("cancel_order", ActionArgs(o, None, PyTrue), "") :
        o \in {None, "O0001", "O0002", "O0003", "O0005", "O0006", "O9999"}}
    \cup {Call("cancel_order", ActionArgs(None, None, PyTrue), "cancel order o0003")}
    \cup {Call("cancel_order", ActionArgs(o, None, c), "cancel order o0003") :
            o \in {None, "O0001"}, c \in {"absent", "true"}}

ReturnCalls ==
    {Call("initiate_return", ActionArgs(o, p, PyTrue), "") :
        o \in {"O0002", "O0004"}, p \in {"P0001", "P0009"}}
    \cup {Call("initiate_return", ActionArgs("O0001", "P0001", PyTrue), ""),
          Call("initiate_return", ActionArgs("O0003", "P0002", PyTrue), ""),
          Call("initiate_return", ActionArgs("O0005", "P0001", PyTrue), ""),
          Call("initiate_return", ActionArgs("O0006", "P0002", PyTrue), ""),
          Call("initiate_return", ActionArgs("O9999", "P0001", PyTrue), ""),
          Call("initiate_return", ActionArgs("O0002", None, PyTrue), ""),
          Call("initiate_return", ActionArgs(None, "P0001", PyTrue), ""),
          Call("initiate_return", ActionArgs(None, None, PyTrue),
               "return p0002 from order O0002"),
          Call("initiate_return", ActionArgs("O0002", "P0001", "absent"), ""),
          Call("initiate_return", ActionArgs(None, None, "true"),
               "return p0002 from order O0002")}

\* secrets.token_hex(3)
TokenHex == {"a1b2c3", "00ff7e"}

\* the longest action log the model follows
MaxLog == 2

IsOrdersMode(mode) == mode # None /\ Strip(Lower(mode)) \in {"orders", "order"}
IsCatalogMode(mode) ==
    mode = None \/ Strip(Lower(mode)) \in
        {"catalog", "products", "catalog+faq", "catalog_faq", "catalog+faqs"}

\* a routing plan; error is set for the {"error": ...} object of a failed generate
\* (confidence counted in tenths)
Plan(route, intent, tool_calls, use_memory, confidence) ==
    [error |-> FALSE, route |-> route, intent |-> intent, tool_calls |-> tool_calls,
     use_memory |-> use_memory, confidence |-> confidence]

ErrorPlan ==
    [error |-> TRUE, route |-> None, intent |-> None, tool_calls |-> <<>>,
     use_memory |-> FALSE, confidence |-> 0]

\* current_focus = {"product_id": None, "product_name": None}
NoFocus == [product_id |-> None, product_name |-> None]

\* what the loop prints after "Alita: ": the text, and the records it lists
Reply(text, items) == [text |-> text, items |-> items]
NoReply == Reply(None, <<>>)

\* AlitaEngine after construction: a pool of keys, the first one current, no call
\* in progress
Engine(keys, current_key_index) ==
    [keys |-> keys, current_key_index |-> current_key_index, call |-> None,
     max_retries |-> 0, total_attempts |-> 0, attempt |-> 0, last |-> None,
     result |-> None]
IdleEngine == Engine(1, 0)

\* build_sliding_window has not been called
NoWindow == [use_memory |-> FALSE, max_tokens |-> 0, messages |-> <<>>]

\* parse_query: None where it found no price or rating
NoNumber == -1

\* the dictionary parse_query returns; min_rating is kept in tenths
ParseData(cleaned_query, max_price, min_price, min_rating, category, sort) ==
    [cleaned_query |-> cleaned_query, max_price |-> max_price, min_price |-> min_price,
     min_rating |-> min_rating, category |-> category, sort |-> sort]

\* parse_query, lines 201-208: the dictionary before anything is parsed
NoData(text) == ParseData(text, NoNumber, NoNumber, NoNumber, None, None)

NoParse == [query |-> None, data |-> NoData("")]

\* the threads that call start, speak and close
Callers == {"main", "other"}

\* TTSRunner.__init__: no thread, an empty queue, both events clear. worker holds
\* the threads start() created, queue holds utterance numbers and 0 for None, done
\* the utterances whose event is set
IdleTTS ==
    [thread |-> 0, ready |-> FALSE, stop |-> FALSE, queue |-> <<>>, done |-> {},
     worker |-> <<>>,
     caller |-> [c \in Callers |-> [pc |-> "idle", op |-> None, utt |-> 0]],
     calls |-> 0]

\* the turn loop is not running
IdleRun ==
    /\ pc = "off"
    /\ user_input = ""
    /\ plan = ErrorPlan
    /\ tool_output = <<>>
    /\ history = <<>>
    /\ current_focus = NoFocus
    /\ events = <<>>
    /\ reply = NoReply
    /\ replies = 0
    /\ turns = 0
    /\ window = NoWindow
    /\ turn_matches = <<>>
    /\ engine = IdleEngine
    /\ parsed = NoParse
    /\ tts = IdleTTS

\* a tool call made by some caller of KnowledgeBaseTools.execute_tool_call
ExecuteToolCall(call, hits, hex) ==
    LET out == execute_tool_call(call.tool, call.args, call.default_query, hits, hex,
                                 actionLog)
    IN  /\ Len(actionLog) < MaxLog
        /\ lastCall' = call
        /\ lastResult' = out.result
        /\ searched' = out.searched
        /\ actionLog' = out.log
        /\ UNCHANGED <<customer_id, indexPresent, dataPresent, ranking, orders>>
        /\ UNCHANGED runVars

\* _get_order_matches(tools, query, k=5): tools.orders.search
GetOrderMatches(query) ==
    LET found == GuardedOrderSearch(query, 5)
    IN  /\ lastCall' = Call("orders.search", Args(query, "orders", KInt(5), None, None,
                                                  "absent"), "")
        /\ lastResult' = Records(IF found.raised THEN <<>> ELSE found.value)
        /\ searched' = TRUE
        /\ UNCHANGED <<customer_id, indexPresent, dataPresent, ranking, orders,
                       actionLog>>
        /\ UNCHANGED runVars

\* a session of retrieve calls
InitTools ==
    /\ customer_id \in Customers
    /\ indexPresent \in BOOLEAN
    /\ dataPresent = TRUE
    /\ ranking \in (IF indexPresent THEN Rankings ELSE {<<1, 2, 3, 4, 5, 6>>})
    /\ orders = OrdersFile
    /\ actionLog = <<>>
    /\ lastCall = NoCall
    /\ lastResult = NoResult
    /\ searched = FALSE
    /\ IdleRun

NextTools ==
    \/ \E call \in RetrieveCalls :
          \E hits \in (IF IsCatalogMode(call.args.mode) THEN CatalogHits ELSE {<<>>}) :
              ExecuteToolCall(call, hits, "a1b2c3")
    \/ \E call \in OtherCalls : ExecuteToolCall(call, <<>>, "a1b2c3")
    \/ \E query \in OrderQueries : GetOrderMatches(query)

SpecTools == InitTools /\ [][NextTools]_vars

\* a session of cancel_order and initiate_return calls
InitActions ==
    /\ customer_id \in Customers
    /\ indexPresent = TRUE
    /\ dataPresent \in BOOLEAN
    /\ ranking = <<1, 2, 3, 4, 5, 6>>
    /\ orders = OrdersFile
    /\ actionLog = <<>>
    /\ lastCall = NoCall
    /\ lastResult = NoResult
    /\ searched = FALSE
    /\ IdleRun

NextActions ==
    \/ \E call \in CancelCalls :
          \E hex \in (IF Confirmed(call.args) THEN TokenHex ELSE {"a1b2c3"}) :
              ExecuteToolCall(call, <<>>, hex)
    \/ \E call \in ReturnCalls :
          \E hex \in (IF Confirmed(call.args) THEN TokenHex ELSE {"a1b2c3"}) :
              ExecuteToolCall(call, <<>>, hex)

SpecActions == InitActions /\ [][NextActions]_vars

-----------------------------------------------------------------------------
(* Claims about the tool executor *)

IsAction(call) == call.tool \in {"cancel_order", "initiate_return"}

\* the query a retrieve call resolves to: args.query, else the utterance
ResolvedQuery(call) == Or(call.args.query, call.default_query)

\* the order id and product id an action call resolves to
ResolvedOrderId(call) == Or(call.args.order_id, _extract_order_id(call.default_query))
ResolvedProductId(call) ==
    Or(call.args.product_id, _extract_product_id(call.default_query))

\* the call got past the confirmation gate and into cancel_order / initiate_return
Executed(call) ==
    /\ IsAction(call)
    /\ Confirmed(call.args)
    /\ ResolvedOrderId(call) # None
    /\ call.tool = "initiate_return" => ResolvedProductId(call) # None

\* the records of the store with that order id
StoredOrders(order_id) ==
    {o \in SeqToSet(orders) : dataPresent /\ o.order_id = order_id}

OwnedByCaller(o) == customer_id = None \/ o.customer_id = customer_id

OrdersLookup(call) ==
    \/ call.tool = "orders.search"
    \/ call.tool = "retrieve" /\ IsOrdersMode(call.args.mode)

\* C1: in a session bound to customer X, no order lookup (a retrieve with
\* mode=orders through execute_tool_call, or the orchestrator's own
\* tools.orders.search) returns a record of another customer, whatever the query
C1_OrdersScoped ==
    (customer_id # None /\ OrdersLookup(lastCall)) =>
        \A i \in DOMAIN lastResult.items : lastResult.items[i].customer_id = customer_id

\* the index ranked another customer's record first, and the lookup of a free-text
\* query still returned records
C1_Witness ==
    /\ customer_id = "C0001"
    /\ OrdersLookup(lastCall)
    /\ lastCall.args.query = "monitor"
    /\ orders[ranking[1]].customer_id = "C0002"
    /\ lastResult.items # <<>>

\* the customer ids the text holds (every match of \bc\d{4}\b)
CustomerIdsIn(text) ==
    LET t == Lower(text)
    IN  {Upper(SubSeq(t, i, i + 4)) : i \in {j \in 1..Len(t) : IdAt(t, j, "c")}}

\* C2: a retrieve with mode=orders whose resolved query holds a customer id other
\* than the bound one, anywhere in it, returns "Access denied" and runs no search
C2_OtherCustomerDenied ==
    (/\ customer_id # None
     /\ lastCall.tool = "retrieve"
     /\ IsOrdersMode(lastCall.args.mode)
     /\ CustomerIdsIn(ResolvedQuery(lastCall)) \ {customer_id} # {}) =>
        (lastResult = Text(AccessDenied) /\ ~searched)

\* C35: a retrieve with mode=orders whose resolved query holds no order id and no
\* customer id and is a generic order phrase or holds the word "order": in a session
\* bound to customer X the search is run with X as the query and returns X's orders,
\* in the order of the file; with no customer bound the query is searched as it is
C35_GenericOrderQueryScoped ==
    (lastCall.tool = "retrieve" /\ IsOrdersMode(lastCall.args.mode)) =>
        LET query == ResolvedQuery(lastCall)
            t == Lower(query)
            k == IF lastCall.args.k.t \notin {"int", "absent"} THEN 5
                 ELSE IF lastCall.args.k.t = "absent" THEN 5
                 ELSE IF lastCall.args.k.v < 1 THEN 1
                 ELSE IF lastCall.args.k.v > 20 THEN 20 ELSE lastCall.args.k.v
            own == Filter(orders, {o \in SeqToSet(orders) : o.customer_id = customer_id})
            ranked == [i \in DOMAIN ranking |-> orders[ranking[i]]]
        IN  (/\ Contains(t, "order")
             /\ \A i \in 1..Len(t) : ~IdAt(t, i, "o") /\ ~IdAt(t, i, "c")) =>
                IF customer_id # None
                THEN lastResult = IF indexPresent /\ own # <<>>
                                  THEN Records(Take(own, k))
                                  ELSE Text("No matching orders found.")
                ELSE lastResult = IF indexPresent THEN Records(Take(ranked, k))
                                  ELSE Text(MissingIndex)

\* "where is my order" in a session bound to C0002, with an order of C0001 ranked
\* second by the index: the three orders of C0002 are returned
C35_Witness ==
    /\ customer_id = "C0002"
    /\ lastCall.tool = "retrieve"
    /\ lastCall.args.query = "where is my order"
    /\ orders[ranking[2]].customer_id = "C0001"
    /\ lastResult.kind = "records"
    /\ Len(lastResult.items) = 3
    /\ \A i \in 1..3 : lastResult.items[i].customer_id = "C0002"

\* C3: a cancel_order or initiate_return call without confirm = True returns the
\* confirmation_required rejection with ticket_id null, and the step leaves the
\* action log and the order records as they were
C3_ConfirmationGate ==
    [][(IsAction(lastCall') /\ lastCall'.args.confirm # PyTrue) =>
          /\ lastResult'.kind = "payload"
          /\ lastResult'.status = "rejected"
          /\ lastResult'.reason = "confirmation_required:" \o lastCall'.tool
          /\ lastResult'.ticket_id = None
          /\ actionLog' = actionLog
          /\ orders' = orders]_vars

\* an eligible order of the caller, with confirm the string "true": rejected
C3_Witness ==
    /\ customer_id = "C0001"
    /\ lastCall.tool = "cancel_order"
    /\ lastCall.args.confirm = "true"
    /\ lastCall.args.order_id = "O0001"
    /\ lastResult.reason = "confirmation_required:cancel_order"
    /\ actionLog = <<>>

\* C4: an executed cancel_order is approved exactly when the order exists, belongs
\* to the bound customer (when one is bound) and is Placed or Shipped; otherwise
\* it is rejected
C4_CancelEligibility ==
    (Executed(lastCall) /\ lastCall.tool = "cancel_order") =>
        LET ok == \E o \in StoredOrders(ResolvedOrderId(lastCall)) :
                      OwnedByCaller(o) /\ o.order_status \in {"Placed", "Shipped"}
        IN  /\ lastResult.kind = "payload"
            /\ lastResult.status = (IF ok THEN "approved" ELSE "rejected")

\* a bound customer cancels an order of theirs that is Placed
C4_Witness ==
    /\ customer_id = "C0001"
    /\ Executed(lastCall)
    /\ lastCall.tool = "cancel_order"
    /\ ResolvedOrderId(lastCall) = "O0001"
    /\ lastResult.status = "approved"

\* C5: an executed initiate_return is approved exactly when the order exists,
\* belongs to the bound customer (when one is bound), is Delivered and holds the
\* product as a line item; an approval carries a ticket "RET-...", a rejection none
C5_ReturnEligibility ==
    (Executed(lastCall) /\ lastCall.tool = "initiate_return") =>
        LET ok == \E o \in StoredOrders(ResolvedOrderId(lastCall)) :
                      /\ OwnedByCaller(o)
                      /\ o.order_status = "Delivered"
                      /\ ResolvedProductId(lastCall) \in o.products
        IN  /\ lastResult.kind = "payload"
            /\ lastResult.status = (IF ok THEN "approved" ELSE "rejected")
            /\ ok => StartsWith(lastResult.ticket_id, "RET-")
            /\ ~ok => lastResult.ticket_id = None

\* a Delivered order of the caller, and a product that is not one of its line items
C5_Witness ==
    /\ customer_id = "C0001"
    /\ Executed(lastCall)
    /\ lastCall.tool = "initiate_return"
    /\ ResolvedOrderId(lastCall) = "O0002"
    /\ ResolvedProductId(lastCall) = "P0009"
    /\ lastResult.status = "rejected"

\* C6: when an executed cancel_order or initiate_return rejects an existing,
\* correctly owned order for its status, the reason of the payload names that
\* status
C6_ReasonNamesStatus ==
    Executed(lastCall) =>
        \A o \in StoredOrders(ResolvedOrderId(lastCall)) :
            (/\ OwnedByCaller(o)
             /\ IF lastCall.tool = "cancel_order"
                THEN o.order_status \notin {"Placed", "Shipped"}
                ELSE o.order_status # "Delivered") =>
                /\ lastResult.status = "rejected"
                /\ StartsWith(lastResult.reason,
                              "Order status is " \o o.order_status \o ",")

\* a return of an order that is only Shipped
C6_Witness ==
    /\ Executed(lastCall)
    /\ lastCall.tool = "initiate_return"
    /\ ResolvedOrderId(lastCall) = "O0003"
    /\ customer_id = "C0002"
    /\ lastResult.status = "rejected"

PastGate(call) == IsAction(call) /\ Confirmed(call.args)

LoggedOne(log, log2, result) ==
    /\ Len(log2) = Len(log) + 1
    /\ log2[Len(log2)].result \in {"approved", "rejected"}
    /\ log2[Len(log2)].result = result.status

\* C7 as claimed: every cancel_order / initiate_return call past the confirmation
\* gate, a missing order_id or product_id included, appends exactly one log entry
\* whose result is the status returned
C7_EveryBranchLogs ==
    [][PastGate(lastCall') => LoggedOne(actionLog, actionLog', lastResult')]_vars

\* C7 as amended: a call past the gate with its ids resolved appends exactly one
\* entry whose result is the status returned; with a missing order_id or
\* product_id it returns a descriptive string and appends nothing
C7_ResolvedBranchLogs ==
    [][/\ Executed(lastCall') => LoggedOne(actionLog, actionLog', lastResult')
       /\ (PastGate(lastCall') /\ ~Executed(lastCall')) =>
              (lastResult'.kind = "text" /\ actionLog' = actionLog)]_vars

\* a rejection (order not found) that was logged
C7_Witness ==
    /\ Executed(lastCall)
    /\ ResolvedOrderId(lastCall) = "O9999"
    /\ Len(actionLog) = 1
    /\ actionLog[1].result = "rejected"
    /\ lastResult.status = "rejected"

IsPrefix(s, t) == Len(s) <= Len(t) /\ SubSeq(t, 1, Len(s)) = s

ApprovedBefore(log, order_id) ==
    \E i \in DOMAIN log :
        /\ log[i].action = "cancel_order"
        /\ log[i].order_id = order_id
        /\ log[i].result = "approved"

\* C8: no cancel_order or initiate_return changes an order record; the action log
\* only grows; and a confirmed cancel of an order whose cancellation was approved
\* before is approved again and logged again
C8_OrdersUntouchedLogGrows ==
    [][/\ orders' = orders
       /\ IsPrefix(actionLog, actionLog')
       /\ (/\ Executed(lastCall')
           /\ lastCall'.tool = "cancel_order"
           /\ ApprovedBefore(actionLog, ResolvedOrderId(lastCall'))) =>
              /\ lastResult'.status = "approved"
              /\ Len(actionLog') = Len(actionLog) + 1]_vars

\* the same order cancelled twice, approved both times
C8_Witness ==
    /\ Len(actionLog) = 2
    /\ actionLog[1].order_id = actionLog[2].order_id
    /\ actionLog[1].action = "cancel_order"
    /\ actionLog[2].action = "cancel_order"
    /\ actionLog[1].result = "approved"
    /\ actionLog[2].result = "approved"
    /\ orders = OrdersFile

\* C9: executing a tool call never throws, whatever the tool, the arguments and
\* the mode, also when the index or the data store is not found
C9_NeverThrows == lastResult.kind # "raise"

-----------------------------------------------------------------------------
(* The turn loop: helpers of core/chat_engine.py *)

\* any(word in text for word in keywords)
AnyIn(text, keywords) == \E w \in keywords : Contains(text, w)

_needs_policy_check(text) ==
    /\ text # ""
    /\ AnyIn(Lower(text),
             {"return", "refund", "exchange", "cancel", "cancellation", "return policy"})

_needs_order_lookup(text) ==
    /\ text # ""
    /\ \/ \E i \in 1..Len(text) : IdAt(Lower(text), i, "o")
       \/ \E i \in 1..Len(text) : IdAt(Lower(text), i, "c")
       \/ AnyIn(Lower(text),
                {"order", "bought", "purchased", "shipment", "delivery", "where is my"})

_is_customer_id_question(text) ==
    text # "" /\ AnyIn(Lower(text), {"customer id", "customerid"})

_is_purchase_intent(text) ==
    /\ text # ""
    /\ AnyIn(Lower(text), {"buy it", "buy this", "purchase it", "purchase this",
                           "order it", "order this"})

_is_cancel_request(text) ==
    text # "" /\ Contains(Lower(text), "cancel") /\ Contains(Lower(text), "order")

ToolCall(tool, args) == [tool |-> tool, args |-> args]

RetrieveCall(query, mode, k) == ToolCall("retrieve", PlainArgs(query, mode, KInt(k)))

\* a test that finds no call, whatever the plan holds
NeverHasRetrieve(tool_calls, mode) == FALSE

HasRetrieve(tool_calls, mode) ==
    \E i \in DOMAIN tool_calls :
        tool_calls[i].tool = "retrieve" /\ tool_calls[i].args.mode = mode

\* an order rule that always asks with the raw utterance
EnsureOrderRawQuery(p, text) ==
    IF ~_needs_order_lookup(text) THEN p
    ELSE IF \E i \in DOMAIN p.tool_calls :
                p.tool_calls[i].tool = "retrieve" /\ p.tool_calls[i].args.mode = "orders"
    THEN p
    ELSE [p EXCEPT !.route = "tools",
                   !.tool_calls = Append(p.tool_calls,
                       [tool |-> "retrieve",
                        args |-> [query |-> text, mode |-> "orders",
                                  k |-> [t |-> "int", v |-> 5], order_id |-> None,
                                  product_id |-> None, confirm |-> "absent"]])]

\* _ensure_order_tool_call
_ensure_order_tool_call(p, text) ==
    IF ~_needs_order_lookup(text) THEN p
    ELSE IF HasRetrieve(p.tool_calls, "orders") THEN p
    ELSE [p EXCEPT !.route = "tools",
                   !.tool_calls = Append(p.tool_calls,
                       RetrieveCall(Or(_extract_customer_id(text), text), "orders", 5))]

\* a policy rule that is satisfied by a retrieve call of any mode
EnsurePolicyUnlessRetrieve(p, text) ==
    IF ~_needs_policy_check(text) THEN p
    ELSE IF \E i \in DOMAIN p.tool_calls : p.tool_calls[i].tool = "retrieve" THEN p
    ELSE [p EXCEPT !.route = "tools",
                   !.tool_calls = Append(p.tool_calls,
                       [tool |-> "retrieve",
                        args |-> [query |-> text, mode |-> "policy",
                                  k |-> [t |-> "int", v |-> 5], order_id |-> None,
                                  product_id |-> None, confirm |-> "absent"]])]

\* _ensure_policy_tool_call
_ensure_policy_tool_call(p, text) ==
    IF ~_needs_policy_check(text) THEN p
    ELSE IF HasRetrieve(p.tool_calls, "policy") THEN p
    ELSE [p EXCEPT !.route = "tools",
                   !.tool_calls = Append(p.tool_calls, RetrieveCall(text, "policy", 5))]

\* the plan run() falls back on when the classification failed
FallbackPlan == Plan("chat", "fallback", <<>>, FALSE, 0)

\* run(), lines 367-376: a failed classification is replaced by the fallback plan
Fallback(classified) == IF classified.error THEN FallbackPlan ELSE classified

\* a forced intent that looks at the tools route only
ForcedIntentOfTools(p) ==
    IF p.route = "tools" THEN [p EXCEPT !.intent = "retrieve"] ELSE p

\* run(), lines 380-381: the forced intent
ForcedIntent(p) ==
    IF p.route \in {"tools", "context_answer"} THEN [p EXCEPT !.intent = "retrieve"]
    ELSE p

\* run(), lines 378-381: the two repair rules, then the forced intent
Repaired(p, text) ==
    ForcedIntent(_ensure_policy_tool_call(_ensure_order_tool_call(p, text), text))

\* what the turn keeps of an executed call: the tool, its mode, the kind of result
Output(call, result) ==
    [tool |-> call.tool,
     mode |-> IF call.tool = "retrieve" THEN Or(call.args.mode, "catalog") ELSE None,
     kind |-> result.kind]

\* one iteration of the loop of _execute_tool_calls: the call is made unless an
\* earlier one raised
ExecuteNext(before, call, default_query, hits, hex) ==
    IF before.raised THEN before
    ELSE LET out == execute_tool_call(call.tool, call.args, default_query, hits, hex,
                                      before.log)
         IN  [raised |-> out.result.kind = "raise",
              outputs |-> Append(before.outputs, Output(call, out.result)),
              log |-> out.log]

\* _execute_tool_calls over a runner that has execute_tool_call: the outputs, the
\* action log, and whether a call raised
_execute_tool_calls(tool_calls, default_query, hits, hex, log) ==
    LET ran[i \in 0..Len(tool_calls)] ==
            IF i = 0 THEN [raised |-> FALSE, outputs |-> <<>>, log |-> log]
            ELSE CHOOSE after \in {ExecuteNext(before, tool_calls[i], default_query,
                                               hits, hex) : before \in {ran[i - 1]}} :
                     TRUE
    IN  ran[Len(tool_calls)]

\* _get_retrieve_query: the query of the first retrieve call of one of the modes
_get_retrieve_query(tool_calls, modes) ==
    LET at == {i \in DOMAIN tool_calls :
                  /\ tool_calls[i].tool = "retrieve"
                  /\ Lower(Or(tool_calls[i].args.mode, "")) \in modes}
    IN  IF at = {} THEN None ELSE tool_calls[Min(at)].args.query

\* _resolve_generic_order_query
_resolve_generic_order_query(query) ==
    IF query = None \/ query = "" THEN query
    ELSE LET normalized == Lower(Strip(query))
         IN  IF normalized \in {"orders", "order", "my orders", "order history",
                                "previous orders"}
             THEN Or(customer_id, query)
             ELSE IF /\ _extract_order_id(query) = None
                     /\ _extract_customer_id(query) = None
                     /\ Contains(normalized, "order")
             THEN Or(customer_id, query)
             ELSE query

\* _get_catalog_matches(tools, query, k=5) or []
_get_catalog_matches(query, hits) ==
    LET found == CatalogSearch(query, 5, hits)
    IN  IF found.raised THEN <<>> ELSE found.value

\* _get_order_matches(tools, query, k=5) or []
_get_order_matches(query) ==
    LET found == GuardedOrderSearch(query, 5)
    IN  IF found.raised THEN <<>> ELSE found.value

\* _suggest_categories: hasattr(products, "items") reads the property, which loads
\* the index and raises FileNotFoundError when its files are missing
SuggestCategoriesRaises == ~indexPresent

\* a message of the history: its role, what it is, and the turn it belongs to
Message(role, kind, turn) == [role |-> role, kind |-> kind, turn |-> turn]

\* the names of the matches, without repetition
Names(matches) == {matches[i].product_name : i \in DOMAIN matches}

NamedIn(text, matches) ==
    {i \in DOMAIN matches : Contains(Lower(text), Lower(matches[i].product_name))}

-----------------------------------------------------------------------------
(* The turn loop: ChatAlita.run *)

\* what the user can type
Utterances ==
    {"hello", "show me monitors", "can i return the zeta monitor",
     "where is my order", "cancel my order", "where is order O9999",
     "what is my customer id", "buy it", "Quit"}

\* plans the classifier can answer with: any plan of INTENT_SCHEMA, whatever the
\* utterance
ClassifierPlans ==
    { Plan("chat", "fallback", <<>>, FALSE, 9),
      Plan("context_answer", "retrieve", <<>>, TRUE, 8),
      Plan("context_answer", "fallback", <<RetrieveCall("orders", "orders", 5)>>,
           TRUE, 5),
      Plan("tools", "retrieve", <<RetrieveCall("monitors", "catalog", 5)>>, FALSE, 9),
      Plan("tools", "retrieve", <<RetrieveCall("monitor", "catalog+faq", 3)>>, TRUE, 7),
      Plan("tools", "retrieve", <<RetrieveCall("orders", "orders", 5)>>, TRUE, 9),
      Plan("tools", "retrieve",
           <<ToolCall("cancel_order", ActionArgs("O0001", None, "absent"))>>, FALSE, 9),
      Plan("tools", "retrieve",
           <<RetrieveCall("return policy", "policy", 5),
             ToolCall("initiate_return", ActionArgs("O0002", "P0001", "absent"))>>,
           FALSE, 6) }

\* plans the follow-up classification can answer with
FollowupPlans ==
    { Plan("chat", "fallback", <<>>, FALSE, 9),
      Plan("tools", "retrieve", <<RetrieveCall("monitor", "faq", 5)>>, FALSE, 9),
      Plan("tools", "retrieve", <<RetrieveCall("monitor", "catalog+faq", 5)>>, FALSE, 9) }

\* the outcomes of ChatAlita.chat: the model's text, or the apology after the
\* attempts are used up
Apology == "I'm having trouble connecting to my brain right now. Please try again."
ChatOutcomes == {"Sure.", "That one is Non-Returnable.", Apology}

\* the inputs a session reads before the model stops following it
MaxTurns == 2

Event(tool, mode, kind) == [tool |-> tool, mode |-> mode, kind |-> kind]

IsQuit(u) == Lower(u) \in {"quit", "exit"}

\* the customer-id question is answered only when a customer is bound
AnswersCustomerId(u) == _is_customer_id_question(u) /\ customer_id # None

\* run(), lines 338-339: quit or exit leaves the loop
Quit(u) ==
    /\ pc = "read"
    /\ IsQuit(u)
    /\ pc' = "stopped"
    /\ UNCHANGED <<user_input, plan, tool_output, history, current_focus, events,
                   reply, replies, turns>>
    /\ UNCHANGED toolVars
    /\ UNCHANGED <<window, turn_matches, engine, parsed, tts>>

\* the reply to a purchase intent that never names the product
AskWhichAlways(focus) == "Which product would you like to buy?"

\* run(), lines 350-358: the reply to a purchase intent
PurchaseReply(focus) ==
    IF focus.product_id # None
    THEN "I can help with that. You're referring to " \o focus.product_name \o " ("
         \o focus.product_id \o "). How many would you like?"
    ELSE "Which product would you like to buy?"

\* run(), lines 341-361: the customer-id and purchase-intent short circuits
ShortCircuit(u) ==
    /\ pc = "read"
    /\ turns < MaxTurns
    /\ ~IsQuit(u)
    /\ AnswersCustomerId(u) \/ _is_purchase_intent(u)
    /\ reply' = Reply(IF AnswersCustomerId(u)
                      THEN "Your customer ID is " \o customer_id \o "."
                      ELSE PurchaseReply(current_focus), <<>>)
    /\ history' = Append(history, Message("assistant", "reply", turns + 1))
    /\ user_input' = u
    /\ turns' = turns + 1
    /\ replies' = 1
    /\ events' = <<>>
    /\ turn_matches' = <<>>
    /\ UNCHANGED <<pc, plan, tool_output, current_focus>>
    /\ UNCHANGED toolVars
    /\ UNCHANGED <<window, engine, parsed, tts>>

\* run(), line 337: an input that goes on to classification
StartTurn(u) ==
    /\ pc = "read"
    /\ turns < MaxTurns
    /\ ~IsQuit(u)
    /\ ~AnswersCustomerId(u)
    /\ ~_is_purchase_intent(u)
    /\ pc' = "classify"
    /\ user_input' = u
    /\ turns' = turns + 1
    /\ replies' = 0
    /\ reply' = NoReply
    /\ events' = <<>>
    /\ plan' = ErrorPlan
    /\ tool_output' = <<>>
    /\ turn_matches' = <<>>
    /\ UNCHANGED <<history, current_focus>>
    /\ UNCHANGED toolVars
    /\ UNCHANGED <<window, engine, parsed, tts>>

\* run(), lines 363-376: classification, and the fallback when it failed
Classify(classified) ==
    /\ pc = "classify"
    /\ plan' = Fallback(classified)
    /\ events' = Append(events, Event("classify", None,
                                      IF classified.error THEN "error" ELSE "plan"))
    /\ pc' = "repair"
    /\ UNCHANGED <<user_input, tool_output, history, current_focus, reply, replies,
                   turns>>
    /\ UNCHANGED toolVars
    /\ UNCHANGED <<window, turn_matches, engine, parsed, tts>>

\* run(), lines 378-384: the repair of the plan, and whether tools are executed
Repair ==
    /\ pc = "repair"
    /\ plan' = Repaired(plan, user_input)
    /\ pc' = IF plan'.route = "tools" /\ plan'.tool_calls # <<>> THEN "tools"
             ELSE "matches"
    /\ UNCHANGED <<user_input, tool_output, history, current_focus, events, reply,
                   replies, turns>>
    /\ UNCHANGED toolVars
    /\ UNCHANGED <<window, turn_matches, engine, parsed, tts>>

\* the tool calls of the plan, with no follow-up classification after them
ExecuteToolsOnly(hits, hex) ==
    /\ pc = "tools"
    /\ \E ran \in {_execute_tool_calls(plan.tool_calls, user_input, hits, hex,
                                        actionLog)} :
          /\ tool_output' = ran.outputs
          /\ events' = events \o ran.outputs
          /\ actionLog' = ran.log
          /\ pc' = IF ran.raised THEN "crashed" ELSE "matches"
    /\ UNCHANGED <<user_input, plan, history, current_focus, reply, replies, turns>>
    /\ UNCHANGED <<customer_id, indexPresent, dataPresent, ranking, orders,
                   lastCall, lastResult, searched>>
    /\ UNCHANGED <<window, turn_matches, engine, parsed, tts>>

\* run(), lines 384-391: the tool calls of the plan
ExecuteTools(hits, hex) ==
    /\ pc = "tools"
    /\ \E ran \in {_execute_tool_calls(plan.tool_calls, user_input, hits, hex,
                                        actionLog)} :
          /\ tool_output' = ran.outputs
          /\ events' = events \o ran.outputs
          /\ actionLog' = ran.log
          /\ pc' = IF ran.raised THEN "crashed" ELSE "followup"
    /\ UNCHANGED <<user_input, plan, history, current_focus, reply, replies, turns>>
    /\ UNCHANGED <<customer_id, indexPresent, dataPresent, ranking, orders,
                   lastCall, lastResult, searched>>
    /\ UNCHANGED <<window, turn_matches, engine, parsed, tts>>

\* follow-up calls taken from the follow-up plan after fallback and repair
FollowupCallsRepaired(followup_plan) ==
    Repaired(Fallback(followup_plan), user_input).tool_calls

\* run(), lines 405-408: the calls of the follow-up plan, none when it is an error
FollowupCalls(followup_plan) ==
    IF followup_plan.error THEN <<>> ELSE followup_plan.tool_calls

\* run(), lines 395-416: the follow-up classification and the calls it proposes
FollowupClassify(followup_plan, hits, hex) ==
    /\ pc = "followup"
    /\ \E ran \in {_execute_tool_calls(FollowupCalls(followup_plan), user_input,
                                        hits, hex, actionLog)} :
          /\ tool_output' = tool_output \o ran.outputs
          /\ events' = Append(events,
                              Event("classify", None,
                                    IF followup_plan.error THEN "error" ELSE "plan"))
                       \o ran.outputs
          /\ actionLog' = ran.log
          /\ pc' = IF ran.raised THEN "crashed" ELSE "matches"
    /\ UNCHANGED <<user_input, plan, history, current_focus, reply, replies, turns>>
    /\ UNCHANGED <<customer_id, indexPresent, dataPresent, ranking, orders,
                   lastCall, lastResult, searched>>
    /\ UNCHANGED <<window, turn_matches, engine, parsed, tts>>

_needs_return_warning(text) ==
    text # "" /\ AnyIn(Lower(text), {"return", "refund", "exchange"})

Truthy(x) == x # None /\ x # ""

\* run(), lines 420-433: the queries of the plan's retrieve calls and their matches
catalog_query == _get_retrieve_query(plan.tool_calls, {"catalog", "catalog+faq"})
order_query ==
    _resolve_generic_order_query(_get_retrieve_query(plan.tool_calls, {"orders"}))
catalog_matches(hits) ==
    IF Truthy(catalog_query) THEN _get_catalog_matches(catalog_query, hits) ELSE <<>>
order_matches == IF Truthy(order_query) THEN _get_order_matches(order_query) ELSE <<>>

\* a cancel gate that does not look for "cancel" and "order" in the utterance
CancelGateAnyUtterance ==
    /\ _extract_order_id(user_input) = None
    /\ Len(order_matches) > 1

\* the conditions of the four gates, each taken only when those before it are not
CancelGate ==
    /\ _is_cancel_request(user_input)
    /\ _extract_order_id(user_input) = None
    /\ Len(order_matches) > 1

ManyProductsGate(hits) ==
    /\ plan.route = "tools"
    /\ Truthy(catalog_query)
    /\ Len(catalog_matches(hits)) > 1
    /\ Cardinality(Names(catalog_matches(hits))) > 1
    /\ NamedIn(user_input, catalog_matches(hits)) = {}

NoProductGate(hits) ==
    /\ plan.route = "tools"
    /\ Truthy(catalog_query)
    /\ catalog_matches(hits) = <<>>

NoOrderGate ==
    /\ plan.route = "tools"
    /\ Truthy(order_query)
    /\ order_matches = <<>>

\* run(), lines 527-540: the focus after the catalog matches of the turn
FocusAfter(hits) ==
    LET found == catalog_matches(hits)
        named == NamedIn(user_input, found)
    IN  IF found = <<>> THEN current_focus
        ELSE IF Len(found) = 1
        THEN [product_id |-> found[1].product_id, product_name |-> found[1].product_name]
        ELSE IF named = {} THEN current_focus
        ELSE [product_id |-> found[Min(named)].product_id,
              product_name |-> found[Min(named)].product_name]

\* history.append of the user message, the tool message if any, and the reply
Answered(h) ==
    LET withUser == Append(h, Message("user", "input", turns))
        withTool == IF tool_output # <<>>
                    THEN Append(withUser, Message("assistant", "tool", turns))
                    ELSE withUser
    IN  Append(withTool, Message("assistant", "reply", turns))

\* a gate or the final path prints its reply and the loop reads again
Respond(response, focus) ==
    /\ reply' = response
    /\ replies' = replies + 1
    /\ history' = Answered(history)
    /\ current_focus' = focus
    /\ pc' = "read"
    /\ UNCHANGED <<user_input, plan, tool_output, turns>>
    /\ UNCHANGED toolVars
    /\ UNCHANGED <<window, engine, parsed, tts>>

\* run(), lines 435-465: gate (a), which order to cancel
AskWhichOrder(hits) ==
    LET active == Filter(order_matches,
                         {o \in SeqToSet(order_matches) :
                            o.order_status \notin {"Cancelled", "Returned"}})
        choices == IF active # <<>> THEN active ELSE order_matches
    IN  /\ pc = "matches"
        /\ CancelGate
        /\ events' = events
        /\ turn_matches' = catalog_matches(hits)
        /\ Respond(Reply("Which one would you like to cancel?", Take(choices, 5)),
                   current_focus)

\* run(), lines 467-505: gate (b), several products and none named
AskWhichProduct(hits) ==
    /\ pc = "matches"
    /\ ~CancelGate
    /\ ManyProductsGate(hits)
    /\ events' = events
    /\ turn_matches' = catalog_matches(hits)
    /\ Respond(Reply("I found a few options.", Take(catalog_matches(hits), 3)),
               current_focus)

\* run(), lines 507-525: gate (c), no product; _suggest_categories reads the
\* catalog index before the reply is built
NoProductFound(hits) ==
    /\ pc = "matches"
    /\ ~CancelGate
    /\ ~ManyProductsGate(hits)
    /\ NoProductGate(hits)
    /\ turn_matches' = catalog_matches(hits)
    /\ IF SuggestCategoriesRaises
       THEN /\ pc' = "crashed"
            /\ UNCHANGED <<user_input, plan, tool_output, history, current_focus,
                           events, reply, replies, turns>>
            /\ UNCHANGED toolVars
            /\ UNCHANGED <<window, engine, parsed, tts>>
       ELSE /\ events' = events
            /\ Respond(Reply("I couldn't find a matching product.", <<>>),
                       current_focus)

\* run(), lines 542-558: gate (d), no order, after the focus update
NoOrderFound(hits) ==
    /\ pc = "matches"
    /\ ~CancelGate
    /\ ~ManyProductsGate(hits)
    /\ ~NoProductGate(hits)
    /\ NoOrderGate
    /\ events' = events
    /\ turn_matches' = catalog_matches(hits)
    /\ Respond(Reply(IF _extract_order_id(user_input) # None
                     THEN "I couldn't find that order ID."
                     ELSE "I couldn't find an order.", <<>>),
               FocusAfter(hits))

\* run(), lines 560-608: the final path, generation and the non-returnable note
Generate(hits, response_text) ==
    LET found == catalog_matches(hits)
        non_returnable == {i \in DOMAIN found : ~found[i].return_eligible}
        noted == IF /\ _needs_return_warning(user_input)
                    /\ non_returnable # {}
                    /\ ~Contains(Lower(response_text), "non-returnable")
                 THEN response_text \o "\nNote: "
                      \o found[Min(non_returnable)].product_name
                      \o " is marked non-returnable."
                 ELSE response_text
    IN  /\ pc = "matches"
        /\ ~CancelGate
        /\ ~ManyProductsGate(hits)
        /\ ~NoProductGate(hits)
        /\ ~NoOrderGate
        /\ events' = Append(events, Event("chat", None, None))
        /\ turn_matches' = found
        /\ Respond(Reply(noted, <<>>), FocusAfter(hits))

\* the session that main() starts: one customer or none, the index built or not
Init ==
    /\ customer_id \in {None, "C0001"}
    /\ indexPresent \in BOOLEAN
    /\ dataPresent = TRUE
    /\ ranking = <<1, 2, 3, 4, 5, 6>>
    /\ orders = OrdersFile
    /\ actionLog = <<>>
    /\ lastCall = NoCall
    /\ lastResult = NoResult
    /\ searched = FALSE
    /\ pc = "read"
    /\ user_input = ""
    /\ plan = ErrorPlan
    /\ tool_output = <<>>
    /\ history = <<Message("system", "prompt", 0)>>
    /\ current_focus = NoFocus
    /\ events = <<>>
    /\ reply = NoReply
    /\ replies = 0
    /\ turns = 0
    /\ window = NoWindow
    /\ turn_matches = <<>>
    /\ engine = IdleEngine
    /\ parsed = NoParse
    /\ tts = IdleTTS

Next ==
    \/ \E u \in Utterances : Quit(u)
    \/ \E u \in Utterances : ShortCircuit(u)
    \/ \E u \in Utterances : StartTurn(u)
    \/ \E c \in ClassifierPlans \cup {ErrorPlan} : Classify(c)
    \/ Repair
    \/ \E hits \in CatalogHits, hex \in TokenHex : ExecuteTools(hits, hex)
    \/ \E f \in FollowupPlans \cup {ErrorPlan}, hits \in CatalogHits, hex \in TokenHex :
          FollowupClassify(f, hits, hex)
    \/ \E hits \in CatalogHits : AskWhichOrder(hits)
    \/ \E hits \in CatalogHits : AskWhichProduct(hits)
    \/ \E hits \in CatalogHits : NoProductFound(hits)
    \/ \E hits \in CatalogHits : NoOrderFound(hits)
    \/ \E hits \in CatalogHits, t \in ChatOutcomes : Generate(hits, t)

Spec == Init /\ [][Next]_vars

\* C10: every turn that reads an input other than quit/exit emits exactly one reply
\* and the loop returns to reading, whatever the external calls of the turn did: the
\* loop never dies inside a turn, and is back at reading with one reply printed
C10_TurnEndsWithOneReply ==
    /\ pc # "crashed"
    /\ replies <= 1
    /\ (pc = "read" /\ turns > 0 => replies = 1)

\* the first classification of the turn failed
ClassificationFailed ==
    /\ events # <<>>
    /\ events[1].tool = "classify"
    /\ events[1].kind = "error"

\* C11: when the classification call fails, the plan the turn continues with,
\* before the repair rules, is exactly the fallback plan (route chat, intent
\* fallback, no tool calls, use_memory false, confidence 0), and the turn still
\* ends with a non-empty reply
C11_FailureFallsBack ==
    ClassificationFailed =>
        /\ pc = "repair" => plan = FallbackPlan
        /\ pc # "crashed"
        /\ pc = "read" => (replies = 1 /\ reply.text \notin {None, ""})

\* the turn went through classification (a short circuit leaves no event)
Classified == events # <<>> /\ events[1].tool = "classify"

\* a retrieve call of the mode is among the events from position first on
ExecutedRetrieve(mode, first) ==
    \E i \in DOMAIN events :
        i >= first /\ events[i].tool = "retrieve" /\ events[i].mode = mode

\* C13: in every turn that reaches classification, an utterance that needs an
\* order lookup has a retrieve(mode=orders) call executed before the reply, and one
\* that needs a policy check a retrieve(mode=policy) call, whatever plan the
\* classifier returned
C13_LookupsBeforeReply ==
    (pc = "read" /\ replies = 1 /\ Classified) =>
        /\ _needs_order_lookup(user_input) => ExecutedRetrieve("orders", 1)
        /\ _needs_policy_check(user_input) => ExecutedRetrieve("policy", 1)

\* C14: within a turn no cancel_order or initiate_return call is executed before
\* a retrieve(mode=policy) call has been executed in that turn
C14_PolicyBeforeAction ==
    \A i \in DOMAIN events :
        events[i].tool \in {"cancel_order", "initiate_return"} =>
            \E j \in 1..(i - 1) :
                events[j].tool = "retrieve" /\ events[j].mode = "policy"

\* the position of the follow-up classification among the events, 0 when none
FollowupAt ==
    LET at == {i \in DOMAIN events : i > 1 /\ events[i].tool = "classify"}
    IN  IF at = {} THEN 0 ELSE Min(at)

\* C17 as claimed: the plan of the follow-up classification is repaired before its
\* calls are executed: when the utterance needs an order lookup (a policy check),
\* a retrieve of that mode is executed after the follow-up classification
C17_FollowupRepaired ==
    (pc \in {"matches", "read"} /\ FollowupAt > 0 /\ events[FollowupAt].kind = "plan") =>
        /\ _needs_order_lookup(user_input) => ExecutedRetrieve("orders", FollowupAt)
        /\ _needs_policy_check(user_input) => ExecutedRetrieve("policy", FollowupAt)

\* C17 as amended: the repair rules are applied to the plan of the first
\* classification only; after the follow-up classification the calls it proposes
\* are executed as they are, and no orders or policy retrieve is added to them
C17_FollowupAsProposed ==
    FollowupAt > 0 =>
        /\ ~ExecutedRetrieve("orders", FollowupAt)
        /\ ~ExecutedRetrieve("policy", FollowupAt)
        /\ _needs_order_lookup(user_input) => ExecutedRetrieve("orders", 1)

\* an utterance that needs an order lookup, and a follow-up classification whose
\* proposed call was executed
C17_Witness ==
    /\ pc = "matches"
    /\ user_input = "where is my order"
    /\ FollowupAt > 0
    /\ FollowupAt < Len(events)
    /\ events[Len(events)].mode = "faq"

\* C18: after the repair step of a classified turn, a plan whose route is tools
\* or context_answer has intent retrieve, and a plan whose route is chat keeps the
\* intent it had
C18_IntentForced ==
    [][(pc = "repair" /\ pc' # "repair") =>
          /\ plan'.route \in {"tools", "context_answer"} => plan'.intent = "retrieve"
          /\ plan'.route = "chat" => plan'.intent = plan.intent]_vars

\* a context_answer plan that came with intent fallback, after the repair
C18_Witness ==
    /\ pc = "matches"
    /\ events = <<Event("classify", None, "plan")>>
    /\ plan.route = "context_answer"
    /\ plan.tool_calls # <<>>
    /\ plan.intent = "retrieve"

-----------------------------------------------------------------------------
(* The repair rules, applied to plans and utterances of any kind *)

\* plans of INTENT_SCHEMA the rules are applied to
RepairPlans ==
    ClassifierPlans \cup
    { FallbackPlan,
      Plan("chat", "retrieve", <<>>, TRUE, 5),
      Plan("context_answer", "fallback", <<RetrieveCall("orders", "orders", 5)>>, TRUE, 5),
      Plan("chat", "fallback", <<RetrieveCall("refunds", "policy", 3)>>, TRUE, 5),
      Plan("tools", "retrieve",
           <<RetrieveCall("refunds", "policy", 3), RetrieveCall("C0001", "orders", 1)>>,
           FALSE, 5),
      Plan("tools", "retrieve",
           <<RetrieveCall("monitor", "faq", 5),
             ToolCall("cancel_order", ActionArgs("O0003", None, "absent"))>>, TRUE, 5) }

RepairUtterances ==
    Utterances \cup
    {"orders for c0002 please", "refund for C0001", "i bought O0001, exchange it",
     "delivery date", ""}

InitRepair ==
    /\ customer_id = None
    /\ indexPresent = TRUE
    /\ dataPresent = TRUE
    /\ ranking = <<1, 2, 3, 4, 5, 6>>
    /\ orders = OrdersFile
    /\ actionLog = <<>>
    /\ lastCall = NoCall
    /\ lastResult = NoResult
    /\ searched = FALSE
    /\ pc = "plan"
    /\ user_input \in RepairUtterances
    /\ plan \in RepairPlans
    /\ tool_output = <<>>
    /\ history = <<>>
    /\ current_focus = NoFocus
    /\ events = <<>>
    /\ reply = NoReply
    /\ replies = 0
    /\ turns = 0
    /\ window = NoWindow
    /\ turn_matches = <<>>
    /\ engine = IdleEngine
    /\ parsed = NoParse
    /\ tts = IdleTTS

\* run(), line 378: plan = _ensure_order_tool_call(plan, user_input)
EnsureOrder ==
    /\ plan' = _ensure_order_tool_call(plan, user_input)
    /\ pc' = "ensure_order"
    /\ UNCHANGED <<user_input, tool_output, history, current_focus, events, reply,
                   replies, turns, window, turn_matches, engine, parsed, tts>>
    /\ UNCHANGED toolVars

\* run(), line 379: plan = _ensure_policy_tool_call(plan, user_input)
EnsurePolicy ==
    /\ plan' = _ensure_policy_tool_call(plan, user_input)
    /\ pc' = "ensure_policy"
    /\ UNCHANGED <<user_input, tool_output, history, current_focus, events, reply,
                   replies, turns, window, turn_matches, engine, parsed, tts>>
    /\ UNCHANGED toolVars

NextRepair == EnsureOrder \/ EnsurePolicy

SpecRepair == InitRepair /\ [][NextRepair]_vars

\* no call of the plan is a retrieve of the mode
NoRetrieveOf(p, mode) ==
    \A i \in DOMAIN p.tool_calls :
        ~(p.tool_calls[i].tool = "retrieve" /\ p.tool_calls[i].args.mode = mode)

\* what a rule is claimed to do to a plan
RuleEffect(before, after, trigger, mode, query) ==
    IF trigger /\ NoRetrieveOf(before, mode)
    THEN /\ after.tool_calls = Append(before.tool_calls, RetrieveCall(query, mode, 5))
         /\ after.route = "tools"
         /\ after.intent = before.intent
         /\ after.use_memory = before.use_memory
         /\ after.confidence = before.confidence
    ELSE after = before

\* C12: each repair rule, when its trigger holds and the plan has no retrieve call
\* of its mode, appends exactly one retrieve call of that mode at the end (k = 5;
\* the query is the extracted customer id or else the raw utterance for orders, the
\* raw utterance for policy) and sets route = tools; otherwise it returns the plan
\* unchanged; the calls the plan had stay as they were
C12_RepairRuleEffect ==
    [][/\ pc' = "ensure_order" =>
            RuleEffect(plan, plan', _needs_order_lookup(user_input), "orders",
                       IF _extract_customer_id(user_input) # None
                       THEN _extract_customer_id(user_input) ELSE user_input)
       /\ pc' = "ensure_policy" =>
            RuleEffect(plan, plan', _needs_policy_check(user_input), "policy",
                       user_input)]_vars

\* the order rule has appended a lookup by the customer id of the utterance
C12_Witness ==
    /\ pc = "ensure_order"
    /\ user_input = "orders for c0002 please"
    /\ plan.route = "tools"
    /\ plan.tool_calls = <<RetrieveCall("C0002", "orders", 5)>>

\* the two rules in the order of run(), and in the other order
OrderThenPolicy(p, text) == _ensure_policy_tool_call(_ensure_order_tool_call(p, text), text)
PolicyThenOrder(p, text) == _ensure_order_tool_call(_ensure_policy_tool_call(p, text), text)

\* C15: the repair rules are idempotent: applying the order and the policy rule
\* twice yields the same plan as applying them once, no call is appended twice
C15_RepairIdempotent ==
    LET once == OrderThenPolicy(plan, user_input)
    IN  OrderThenPolicy(once, user_input) = once

\* both rules have appended their call to a plan that had none
C15_Witness ==
    /\ pc = "ensure_policy"
    /\ user_input = "cancel my order"
    /\ plan.tool_calls = <<RetrieveCall("cancel my order", "orders", 5),
                           RetrieveCall("cancel my order", "policy", 5)>>

\* C16 as claimed: the order rule then the policy rule yields the same route and
\* the same ordered sequence of tool calls as the policy rule then the order rule
C16_RepairOrderIndependent ==
    LET a == OrderThenPolicy(plan, user_input)
        b == PolicyThenOrder(plan, user_input)
    IN  a.route = b.route /\ a.tool_calls = b.tool_calls

\* C16 as amended: both orders of application yield the same route and the same
\* tool calls, the calls the plan had first and in their order, the appended calls
\* after them in the order in which the rules were applied
C16_RepairSameCalls ==
    LET a == OrderThenPolicy(plan, user_input)
        b == PolicyThenOrder(plan, user_input)
    IN  /\ a.route = b.route
        /\ a.intent = b.intent
        /\ Len(a.tool_calls) = Len(b.tool_calls)
        /\ IsPrefix(plan.tool_calls, a.tool_calls)
        /\ IsPrefix(plan.tool_calls, b.tool_calls)
        /\ SeqToSet(a.tool_calls) = SeqToSet(b.tool_calls)
        /\ (_needs_order_lookup(user_input) /\ _needs_policy_check(user_input)
            /\ NoRetrieveOf(plan, "orders") /\ NoRetrieveOf(plan, "policy")) =>
               /\ a.tool_calls[Len(a.tool_calls)].args.mode = "policy"
               /\ b.tool_calls[Len(b.tool_calls)].args.mode = "orders"

\* the policy rule then the order rule have been applied to a plan without calls:
\* the policy call comes first, the other way round than in run()
C16_Witness ==
    /\ pc = "ensure_order"
    /\ user_input = "i bought O0001, exchange it"
    /\ plan.route = "tools"
    /\ plan.tool_calls = <<RetrieveCall("i bought O0001, exchange it", "policy", 5),
                           RetrieveCall("i bought O0001, exchange it", "orders", 5)>>

-----------------------------------------------------------------------------
(* The sliding window: build_sliding_window *)

\* a message of a history: its role and its content
Msg(role, content) == [role |-> role, content |-> content]

\* len(m.get("content", "")) // 4
Cost(m) == Len(m.content) \div 4

RECURSIVE CostFrom(_, _)
\* the summed cost of the messages of h from position i on
CostFrom(h, i) == IF i > Len(h) THEN 0 ELSE Cost(h[i]) + CostFrom(h, i + 1)

\* a total in which the system message costs nothing
TotalWithoutSystem(h) == CostFrom(h, 2)

\* total_tokens = sum(len(m.get("content", "")) // 4 for m in window)
TotalTokens(h) == CostFrom(h, 1)

Max(S) == CHOOSE x \in S : \A y \in S : y <= x

\* the oldest message of role user
FirstUser(h) ==
    LET users == {i \in DOMAIN h : h[i].role = "user"}
    IN  IF users = {} THEN <<>> ELSE <<h[Min(users)]>>

\* next(msg for msg in reversed(history) if msg.get("role") == "user"), as a list
LatestUser(h) ==
    LET users == {i \in DOMAIN h : h[i].role = "user"}
    IN  IF users = {} THEN <<>> ELSE <<h[Max(users)]>>

RECURSIVE Evict(_, _, _, _)
\* the while loop of build_sliding_window: the number of messages dropped after
\* the system message plus one (the python idx), from idx and total_tokens
Evict(h, idx, total_tokens, max_tokens) ==
    IF total_tokens > max_tokens /\ idx < Len(h) - 1
    THEN Evict(h, idx + 1, total_tokens - Cost(h[idx + 1]), max_tokens)
    ELSE idx

\* build_sliding_window(history, use_memory, max_tokens)
build_sliding_window(h, use_memory, max_tokens) ==
    IF h = <<>> THEN <<>>
    ELSE IF ~use_memory THEN <<h[1]>> \o LatestUser(h)
    ELSE <<h[1]>> \o SubSeq(h, Evict(h, 1, TotalTokens(h), max_tokens) + 1, Len(h))

\* the longest history the window is built from
MaxHistory == 4

SystemPrompts == {Msg("system", ""), Msg("system", "You are Alita.")}

\* contents of 2, 11 and 21 characters: costs 0, 2 and 5
LaterMessages ==
    {Msg(r, c) : r \in {"user", "assistant"},
                 c \in {"hi", "where is it", "TOOL RESULTS: [orders]"}}

\* histories as run() keeps them: the system message, then user and assistant
\* messages
WindowHistories ==
    UNION {{<<sys>> \o rest : sys \in SystemPrompts, rest \in [1..n -> LaterMessages]} :
              n \in 0..(MaxHistory - 1)}

Budgets == {0, 2, 4, 7, 1500}

InitWindow ==
    /\ customer_id = None
    /\ indexPresent = TRUE
    /\ dataPresent = TRUE
    /\ ranking = <<1, 2, 3, 4, 5, 6>>
    /\ orders = OrdersFile
    /\ actionLog = <<>>
    /\ lastCall = NoCall
    /\ lastResult = NoResult
    /\ searched = FALSE
    /\ pc = "window"
    /\ user_input = ""
    /\ plan = ErrorPlan
    /\ tool_output = <<>>
    /\ history \in WindowHistories
    /\ current_focus = NoFocus
    /\ events = <<>>
    /\ reply = NoReply
    /\ replies = 0
    /\ turns = 0
    /\ \E use_memory \in BOOLEAN, max_tokens \in Budgets :
          window = [use_memory |-> use_memory, max_tokens |-> max_tokens,
                    messages |-> <<>>]
    /\ turn_matches = <<>>
    /\ engine = IdleEngine
    /\ parsed = NoParse
    /\ tts = IdleTTS

\* run(), lines 565-569: the window of the turn is built
BuildWindow ==
    /\ pc = "window"
    /\ window' = [window EXCEPT !.messages =
                      build_sliding_window(history, window.use_memory,
                                           window.max_tokens)]
    /\ pc' = "built"
    /\ UNCHANGED <<user_input, plan, tool_output, history, current_focus, events,
                   reply, replies, turns, turn_matches, engine, parsed, tts>>
    /\ UNCHANGED toolVars

NextWindow == BuildWindow

SpecWindow == InitWindow /\ [][NextWindow]_vars

\* C19: with use_memory false the window is exactly history[0] followed by the
\* single most recent message of role user if there is one, and nothing else,
\* whatever max_tokens and the other messages are
C19_NoMemoryWindow ==
    (pc = "built" /\ ~window.use_memory) =>
        LET users == {i \in DOMAIN history : history[i].role = "user"}
            w == window.messages
        IN  /\ w[1] = history[1]
            /\ users = {} => Len(w) = 1
            /\ users # {} =>
                  /\ Len(w) = 2
                  /\ \E i \in users : w[2] = history[i] /\ \A j \in users : j <= i

\* a history with two different user messages and an assistant message after them
C19_Witness ==
    /\ pc = "built"
    /\ ~window.use_memory
    /\ Len(history) = 4
    /\ history[2] = Msg("user", "hi")
    /\ history[3] = Msg("user", "where is it")
    /\ history[4].role = "assistant"
    /\ window.messages = <<history[1], history[3]>>

\* C20: with use_memory true the window is history[0] followed by the suffix
\* history[i:] of whole messages in their order, i the smallest index >= 1 at
\* which the summed cost (len(content) // 4 per message, the system message
\* included) of the returned messages is within max_tokens, or len(history) - 1
\* when there is none (positions below are counted from 1)
C20_MemoryWindow ==
    (pc = "built" /\ window.use_memory /\ Len(history) >= 2) =>
        LET fits == {i \in 2..Len(history) :
                        Len(history[1].content) \div 4 + CostFrom(history, i)
                            <= window.max_tokens}
            first == IF fits = {} THEN Len(history) ELSE Min(fits)
        IN  window.messages = <<history[1]>> \o SubSeq(history, first, Len(history))

\* a history over the budget from which the two oldest messages were evicted, and
\* that fits only because of them
C20_Witness ==
    /\ pc = "built"
    /\ window.use_memory
    /\ window.max_tokens = 7
    /\ Len(history) = 4
    /\ history[1] = Msg("system", "You are Alita.")
    /\ Len(window.messages) = 2
    /\ window.messages[2] = history[4]
    /\ history[3].content = "where is it"

-----------------------------------------------------------------------------
(* Claims about k *)

\* the k of the last retrieve call as the caller gave it
GivenK == lastCall.args.k

\* the number of records in the result of the last call
RecordCount == Len(lastResult.items) + Len(lastResult.faq)

\* C27 as claimed: for every k passed to retrieve an integer below 1 becomes 1, one
\* above 20 becomes 20, one in 1..20 is kept, a non-numeric or missing one becomes
\* 5; and no retrieve returns more records than the resulting k
C27_ClampAndCap ==
    lastCall.tool = "retrieve" =>
        LET k == IF GivenK.t # "int" THEN 5
                 ELSE IF GivenK.v < 1 THEN 1
                 ELSE IF GivenK.v > 20 THEN 20 ELSE GivenK.v
        IN  /\ _clamp_k(ArgK(lastCall.args)) = k
            /\ RecordCount <= k

\* C27 as amended: k is clamped in the same way, and every list of records a
\* retrieve returns (the one list of a single collection, the catalog list and the
\* faq list of catalog+faq) has at most k records
C27_ClampAndCapEachList ==
    lastCall.tool = "retrieve" =>
        LET k == IF GivenK.t # "int" THEN 5
                 ELSE IF GivenK.v < 1 THEN 1
                 ELSE IF GivenK.v > 20 THEN 20 ELSE GivenK.v
        IN  /\ _clamp_k(ArgK(lastCall.args)) = k
            /\ Len(lastResult.items) <= k
            /\ Len(lastResult.faq) <= k
            /\ (lastResult.kind # "combined") => lastResult.faq = <<>>

\* a catalog+faq retrieve with k = 1 that returned one product and one faq entry
C27_Witness ==
    /\ lastCall.tool = "retrieve"
    /\ lastCall.args.mode = "catalog+faq"
    /\ GivenK = KInt(1)
    /\ lastResult.kind = "combined"
    /\ Len(lastResult.items) = 1
    /\ Len(lastResult.faq) = 1

\* C28 as claimed: every numeric k outside 1..20 falls back to 5
C28_OutOfRangeIsFive ==
    (lastCall.tool = "retrieve" /\ GivenK.t = "int" /\ GivenK.v \notin 1..20) =>
        _clamp_k(ArgK(lastCall.args)) = 5

\* C28 as amended: a numeric k below 1 is executed with k = 1 and one above 20 with
\* k = 20; only a non-numeric or missing k falls back to 5. A lookup of all six
\* orders by an unbound session shows it: k = 0 and k = -3 give one record, k = 50
\* gives the six, a non-numeric k gives five
C28_OutOfRangeIsNearestBound ==
    (lastCall.tool = "retrieve" /\ GivenK.t \in {"int", "text"}) =>
        LET k == _clamp_k(ArgK(lastCall.args))
            all == /\ customer_id = None
                   /\ indexPresent
                   /\ lastCall.args.mode = "orders"
                   /\ lastCall.args.query = "monitor"
        IN  /\ (GivenK.t = "int" /\ GivenK.v < 1) =>
                  (k = 1 /\ (all => Len(lastResult.items) = 1))
            /\ (GivenK.t = "int" /\ GivenK.v > 20) =>
                  (k = 20 /\ (all => Len(lastResult.items) = Len(orders)))
            /\ GivenK.t = "text" => (k = 5 /\ (all => Len(lastResult.items) = 5))

\* k = 50 on a lookup that can return all six orders
C28_Witness ==
    /\ lastCall.tool = "retrieve"
    /\ GivenK = KInt(50)
    /\ customer_id = None
    /\ lastCall.args.mode = "orders"
    /\ Len(lastResult.items) = 6

-----------------------------------------------------------------------------
(* The id extraction: _extract_order_id, _extract_product_id, _extract_customer_id *)

\* what can stand before and after an id in a text
Before == {"", " ", "x", "7", "_", "#", "order ", "O"}
After == {"", " ", "x", "7", "_", ".", "?", " please"}

\* ids in upper and lower case, and near misses
IdForms == {"O0001", "o0001", "C0002", "c0002", "P0003", "p0003"}
NearMisses == {"", "hello", "O001", "O 0001", "0001", "Oooo1", "c-0002", "order"}

ExtractTexts ==
    {b \o id \o a : b \in Before, id \in IdForms, a \in After}
    \cup NearMisses
    \cup {"O0001 and o0004", "C0001 C0002", "xO0001 O0002"}

Extractors == {"_extract_order_id", "_extract_product_id", "_extract_customer_id"}

InitExtract ==
    /\ customer_id = None
    /\ indexPresent = TRUE
    /\ dataPresent = TRUE
    /\ ranking = <<1, 2, 3, 4, 5, 6>>
    /\ orders = OrdersFile
    /\ actionLog = <<>>
    /\ lastCall = NoCall
    /\ lastResult = NoResult
    /\ searched = FALSE
    /\ IdleRun

\* a call of one of the three extraction functions on a text
Extract(fn, text) ==
    /\ lastCall = NoCall
    /\ lastCall' = Call(fn, PlainArgs(text, None, KAbsent), "")
    /\ lastResult' = Text(IF fn = "_extract_order_id" THEN _extract_order_id(text)
                          ELSE IF fn = "_extract_product_id"
                          THEN _extract_product_id(text)
                          ELSE _extract_customer_id(text))
    /\ UNCHANGED <<customer_id, indexPresent, dataPresent, ranking, orders,
                   actionLog, searched>>
    /\ UNCHANGED runVars

NextExtract == \E fn \in Extractors, text \in ExtractTexts : Extract(fn, text)

SpecExtract == InitExtract /\ [][NextExtract]_vars

\* the positions of a text at which the letter (in either case) and four digits stand
IdsIn(text, letter) ==
    {i \in 1..(Len(text) - 4) :
        /\ Char(text, i) \in {letter, UpperOf[letter]}
        /\ \A j \in (i + 1)..(i + 4) : Char(text, j) \in Digits}

\* the id at a position, in upper case
IdOf(text, i) == UpperOf[LowerChar(Char(text, i))] \o SubSeq(text, i + 1, i + 4)

\* C29: for every text that contains a well-formed order id (O + 4 digits) or
\* customer id (C + 4 digits) in upper or lower case, the extraction returns that id
\* in upper case whatever stands before or after it (letters, digits, underscore,
\* punctuation, nothing), and none when the text holds no such id
C29_ExtractsAnyId ==
    (lastCall.tool \in {"_extract_order_id", "_extract_customer_id"}) =>
        LET text == lastCall.args.query
            ids == IdsIn(text, IF lastCall.tool = "_extract_order_id" THEN "o" ELSE "c")
        IN  IF ids = {} THEN lastResult.text = None
            ELSE \E i \in ids : lastResult.text = IdOf(text, i)

-----------------------------------------------------------------------------
(* The model calls: AlitaEngine.generate and ChatAlita.chat *)

\* the most keys of API_KEYS, and the most retries per key, that are followed
MaxKeys == 3
MaxRetries == 2

\* what the request of one attempt does: it returns a JSON object, it returns text
\* that is no JSON, it returns a JSON object cut off inside a string that starts at
\* character 401, it returns no content, or it raises (a rate-limit error, an
\* authentication error, a timeout)
AttemptOutcomes ==
    {"object", "text", "truncated", "empty", "rate limit", "unauthorized", "timeout"}

\* str(e) of the exception that the attempt ends with, None when it returns
ErrorOf(call, outcome) ==
    CASE outcome = "rate limit" -> "Error code: 429 - Rate limit reached for model"
      [] outcome = "unauthorized" -> "Error code: 401 - Invalid API Key"
      [] outcome = "timeout" -> "Request timed out."
      [] outcome = "empty" ->
            IF call = "generate" THEN "Empty response from API" ELSE "Empty response"
      [] outcome = "text" /\ call = "generate" ->
            "Expecting value: line 1 column 1 (char 0)"
      [] outcome = "truncated" /\ call = "generate" ->
            "Unterminated string starting at: line 1 column 402 (char 401)"
      [] OTHER -> None

\* the keywords of _should_rotate_key
RotateKeywords ==
    {"rate limit", "too many requests", "quota", "429", "unauthorized",
     "authentication", "auth", "invalid api key", "api key", "permission", "401"}

\* _should_rotate_key: one of the keywords is in the lowercased message of the error
_should_rotate_key(message) == \E word \in RotateKeywords : Contains(Lower(message), word)

\* the except branch: whether the error of the attempt rotates the key
Rotates ==
    [call \in {"generate", "chat"}, outcome \in AttemptOutcomes |->
        _should_rotate_key(ErrorOf(call, outcome))]

\* _rotate_key
_rotate_key(e) ==
    [e EXCEPT !.current_key_index = (e.current_key_index + 1) % e.keys]

\* the attempt returns from the call: generate needs content that json.loads
\* parses, chat any content
Succeeds(call, outcome) ==
    IF call = "generate" THEN outcome = "object"
    ELSE outcome \in {"object", "text", "truncated"}

\* one attempt more than the pool allows
AttemptsPlusOne(keys, per_key) == keys * per_key + 1

\* total_attempts = len(self.api_keys) * max_retries
total_attempts(keys, per_key) == keys * per_key

\* what generate returns after the loop
GenerationFailed == "{\"error\": \"Generation failed\"}"

InProgress == engine.call # None /\ engine.result = None

\* AlitaEngine.__init__: the keys of the environment, at least one
InitEngine ==
    /\ customer_id = None
    /\ indexPresent = TRUE
    /\ dataPresent = TRUE
    /\ ranking = <<1, 2, 3, 4, 5, 6>>
    /\ orders = OrdersFile
    /\ actionLog = <<>>
    /\ lastCall = NoCall
    /\ lastResult = NoResult
    /\ searched = FALSE
    /\ pc = "off"
    /\ user_input = ""
    /\ plan = ErrorPlan
    /\ tool_output = <<>>
    /\ history = <<>>
    /\ current_focus = NoFocus
    /\ events = <<>>
    /\ reply = NoReply
    /\ replies = 0
    /\ turns = 0
    /\ window = NoWindow
    /\ turn_matches = <<>>
    /\ \E keys \in 1..MaxKeys : engine = Engine(keys, 0)
    /\ parsed = NoParse
    /\ tts = IdleTTS

EngineFrame ==
    /\ UNCHANGED <<pc, user_input, plan, tool_output, history, current_focus, events,
                   reply, replies, turns, window, turn_matches, parsed, tts>>
    /\ UNCHANGED toolVars

\* generate(..., max_retries) is entered
CallGenerate(max_retries) ==
    /\ ~InProgress
    /\ engine' = [engine EXCEPT !.call = "generate", !.max_retries = max_retries,
                                !.total_attempts = total_attempts(engine.keys, max_retries),
                                !.attempt = 0, !.last = None, !.result = None]
    /\ EngineFrame

\* chat(messages) is entered
CallChat ==
    /\ ~InProgress
    /\ engine' = [engine EXCEPT !.call = "chat", !.max_retries = 2,
                                !.total_attempts = total_attempts(engine.keys, 2),
                                !.attempt = 0, !.last = None, !.result = None]
    /\ EngineFrame

\* one iteration of the for loop: the request, and the except branch when it fails
Attempt(outcome) ==
    /\ InProgress
    /\ engine.attempt < engine.total_attempts
    /\ LET tried == [engine EXCEPT !.attempt = engine.attempt + 1, !.last = outcome]
       IN  engine' = IF Succeeds(engine.call, outcome)
                     THEN [tried EXCEPT !.result = outcome]
                     ELSE IF Rotates[engine.call, outcome] THEN _rotate_key(tried)
                     ELSE tried
    /\ EngineFrame

\* the loop is over without a return: the failure object, or the apology
Exhausted ==
    /\ InProgress
    /\ engine.attempt >= engine.total_attempts
    /\ engine' = [engine EXCEPT !.result = IF engine.call = "generate"
                                           THEN GenerationFailed ELSE Apology]
    /\ EngineFrame

NextEngine ==
    \/ \E max_retries \in 0..MaxRetries : CallGenerate(max_retries)
    \/ CallChat
    \/ \E outcome \in AttemptOutcomes : Attempt(outcome)
    \/ Exhausted

\* each request returns or raises, and the loop goes on
SpecEngine == InitEngine /\ [][NextEngine]_vars /\ WF_vars(NextEngine)

\* C30: every model call ends without raising: generate makes at most pool_size x
\* max_retries attempts, returns the parsed object at the first attempt that
\* succeeds and the failure object with an "error" field when all fail; chat makes
\* at most pool_size x 2 attempts and returns the apology when all fail
C30_ModelCallsEnd ==
    /\ [][LET per_key == IF engine'.call = "chat" THEN 2 ELSE engine'.max_retries
              attempted == engine'.call = engine.call /\ engine'.attempt = engine.attempt + 1
              returned == engine.result = None /\ engine'.result # None
          IN  /\ engine'.attempt <= engine'.keys * per_key
              /\ attempted => engine.result = None
              /\ (attempted /\ engine'.last = "object") => engine'.result = "object"
              /\ (attempted /\ engine'.call = "chat"
                     /\ engine'.last \in {"text", "truncated"}) =>
                     engine'.result = engine'.last
              /\ (attempted /\ engine'.last \in {"empty", "rate limit", "unauthorized",
                                                 "timeout"}) =>
                     engine'.result = None
              /\ (attempted /\ engine'.call = "generate"
                     /\ engine'.last \in {"text", "truncated"}) =>
                     engine'.result = None
              /\ (returned /\ ~attempted) =>
                     /\ engine.attempt = engine.keys * per_key
                     /\ engine'.result = IF engine.call = "generate"
                                         THEN GenerationFailed ELSE Apology]_vars
    /\ (engine.call # None /\ engine.result = None) ~> (engine.result # None)

\* generate with two keys and two retries per key failed four times, rotating the
\* key on the rate-limit errors, and returned the failure object
C30_Witness ==
    /\ engine.call = "generate"
    /\ engine.keys = 2
    /\ engine.max_retries = 2
    /\ engine.attempt = 4
    /\ engine.current_key_index = 1
    /\ engine.result = GenerationFailed

\* C31: the key index moves to (index + 1) mod pool_size after a failed attempt of
\* authentication or rate-limit class, and only then: it is unchanged after any
\* other failure, after a success and between calls, and it stays in [0, pool_size)
C31_RotationByErrorClass ==
    [][LET attempted == engine'.call = engine.call /\ engine'.attempt = engine.attempt + 1
           failed == attempted /\ engine'.result = None
       IN  /\ engine'.current_key_index \in 0..(engine'.keys - 1)
           /\ engine'.keys = engine.keys
           /\ IF failed /\ engine'.last \in {"rate limit", "unauthorized"}
              THEN engine'.current_key_index = (engine.current_key_index + 1) % engine.keys
              ELSE engine'.current_key_index = engine.current_key_index]_vars

-----------------------------------------------------------------------------
(* Claims about the phases of a turn *)

\* the positions of the classifier calls among the events of the turn
ClassifyAt == {i \in DOMAIN events : events[i].tool = "classify"}

\* C22: in every turn the classifier is called at most twice and tool calls run in
\* at most two rounds: the follow-up classification is issued once, and only after
\* a first round that executed the tool calls of a plan with route tools; the calls
\* it proposes are executed with no classification after them
C22_OneFollowup ==
    /\ Cardinality(ClassifyAt) <= 2
    /\ ClassifyAt # {} => 1 \in ClassifyAt
    /\ \A i \in ClassifyAt \ {1} :
          /\ plan.route = "tools"
          /\ plan.tool_calls # <<>>
          /\ i = Len(plan.tool_calls) + 2
          /\ \A j \in 2..(i - 1) : events[j].tool = plan.tool_calls[j - 1].tool
          /\ \A j \in (i + 1)..Len(events) : events[j].tool \in {"retrieve", "chat"}
    /\ (pc \in {"matches", "read"} /\ ClassifyAt # {}) =>
          ((plan.route = "tools" /\ plan.tool_calls # <<>>) <=>
               Cardinality(ClassifyAt) = 2)

\* a turn with two rounds: the first plan's retrieve, the follow-up classification,
\* the retrieve it proposed, and then the generation
C22_Witness ==
    /\ pc = "read"
    /\ Len(events) = 5
    /\ ClassifyAt = {1, 3}
    /\ events[2].tool = "retrieve"
    /\ events[4].tool = "retrieve"
    /\ events[5].tool = "chat"

\* C23: a turn whose utterance is a customer-id question, with a customer bound to
\* the session, or holds a purchase-intent phrase is answered at once, with no
\* classifier call, tool call or generation call: the customer-id question with the
\* bound id, the purchase intent with the quantity question that names the focus
\* product when one is set and with the question which product when none is
C23_ShortCircuits ==
    [][(pc = "read" /\ turns' = turns + 1) =>
          LET u == user_input'
              asks_id == _is_customer_id_question(u) /\ customer_id # None
              direct == /\ pc' = "read"
                        /\ events' = <<>>
                        /\ replies' = 1
                        /\ history' = Append(history, Message("assistant", "reply", turns'))
                        /\ UNCHANGED <<plan, tool_output, current_focus, actionLog>>
          IN  /\ asks_id =>
                    /\ direct
                    /\ reply'.text = "Your customer ID is " \o customer_id \o "."
              /\ (_is_purchase_intent(u) /\ ~asks_id) =>
                    /\ direct
                    /\ reply'.text =
                          IF current_focus.product_id = None
                          THEN "Which product would you like to buy?"
                          ELSE "I can help with that. You're referring to "
                               \o current_focus.product_name \o " ("
                               \o current_focus.product_id \o "). How many would you like?"]_vars

\* a purchase intent in the turn after a product came into focus
C23_Witness ==
    /\ pc = "read"
    /\ user_input = "buy it"
    /\ turns = 2
    /\ events = <<>>
    /\ current_focus.product_id = "P0001"
    /\ reply.text = "I can help with that. You're referring to Luma Monitor Pro (P0001). How many would you like?"

\* the replies of the four gates
GateReplies ==
    {"Which one would you like to cancel?", "I found a few options.",
     "I couldn't find a matching product.", "I couldn't find that order ID.",
     "I couldn't find an order."}

\* one of the four gates fires for the catalog matches found
GateFires(found) ==
    \/ /\ _is_cancel_request(user_input)
       /\ _extract_order_id(user_input) = None
       /\ Len(order_matches) > 1
    \/ /\ plan.route = "tools"
       /\ Truthy(catalog_query)
       /\ \/ found = <<>>
          \/ /\ Cardinality(Names(found)) > 1
             /\ NamedIn(user_input, found) = {}
    \/ /\ plan.route = "tools"
       /\ Truthy(order_query)
       /\ order_matches = <<>>

\* the messages a turn adds to the history
TurnMessages ==
    <<Message("user", "input", turns)>>
    \o (IF tool_output # <<>> THEN <<Message("assistant", "tool", turns)>> ELSE <<>>)
    \o <<Message("assistant", "reply", turns)>>

\* C24: in every turn where a gate fires (cancel with several orders, several
\* distinct catalog names none of them in the utterance, no catalog match, no order
\* match) no generation call is made: the direct reply is printed and the history
\* receives, in this order, the utterance, the tool-result message if there is one,
\* and the reply
C24_GatesReplyDirectly ==
    [][(pc = "matches" /\ GateFires(turn_matches')) =>
          /\ pc' = "read"
          /\ replies' = replies + 1
          /\ reply'.text \in GateReplies
          /\ \A i \in DOMAIN events' : events'[i].tool # "chat"
          /\ history' = history \o TurnMessages]_vars

\* C25: at the end of every classified turn with catalog matches the focus is the
\* single match, or the first match whose name is in the utterance when there are
\* several; in every other turn (no catalog match, or several and none named) the
\* focus is unchanged
C25_FocusFollowsMatches ==
    [][(pc = "matches" /\ pc' = "read") =>
          LET found == turn_matches'
              named == NamedIn(user_input, found)
              at == IF Len(found) = 1 THEN 1 ELSE Min(named)
          IN  IF found # <<>> /\ (Len(found) = 1 \/ named # {})
              THEN current_focus' = [product_id |-> found[at].product_id,
                                     product_name |-> found[at].product_name]
              ELSE current_focus' = current_focus]_vars

\* C33: a turn whose utterance holds an order id that no order has ("where is order
\* O9999") is answered with the direct message "I couldn't find that order ID...",
\* whatever plan the classifier returned and also when the orders call was added by
\* the repair rule with the utterance as its query
C33_UnknownOrderId ==
    [][(user_input' = "where is order O9999" /\ replies' = replies + 1) =>
          reply'.text = "I couldn't find that order ID."]_vars

\* C34: the gates are tried in the order cancel-orders, catalog-multiple,
\* catalog-zero, orders-zero and the first whose condition holds gives the reply; the
\* cancel gate is taken exactly when the utterance holds "cancel" and "order", holds
\* no order id and more than one order matches, and it lists the matches that are
\* neither Cancelled nor Returned, or all of them when none is active
C34_GateOrder ==
    [][(pc = "matches" /\ pc' = "read") =>
          LET found == turn_matches'
              text == Lower(user_input)
              cancel == /\ Contains(text, "cancel")
                        /\ Contains(text, "order")
                        /\ \A i \in 1..Len(text) : ~IdAt(text, i, "o")
                        /\ Len(order_matches) > 1
              many == /\ plan.route = "tools"
                      /\ Truthy(catalog_query)
                      /\ Cardinality(Names(found)) > 1
                      /\ NamedIn(user_input, found) = {}
              zero == plan.route = "tools" /\ Truthy(catalog_query) /\ found = <<>>
              lost == plan.route = "tools" /\ Truthy(order_query) /\ order_matches = <<>>
              active == {i \in DOMAIN order_matches :
                            order_matches[i].order_status \notin {"Cancelled", "Returned"}}
              listed == IF active = {} THEN DOMAIN order_matches ELSE active
          IN  IF cancel
              THEN /\ reply'.text = "Which one would you like to cancel?"
                   /\ {reply'.items[i].order_id : i \in DOMAIN reply'.items}
                         = {order_matches[i].order_id : i \in listed}
              ELSE IF many THEN reply'.text = "I found a few options."
              ELSE IF zero THEN reply'.text = "I couldn't find a matching product."
              ELSE IF lost
              THEN reply'.text \in {"I couldn't find that order ID.",
                                    "I couldn't find an order."}
              ELSE /\ reply'.text \notin GateReplies
                   /\ events'[Len(events')].tool = "chat"]_vars

\* "cancel my order" for customer C0001, whose three orders match: the two that are
\* not Cancelled are listed
C34_Witness ==
    /\ pc = "read"
    /\ user_input = "cancel my order"
    /\ customer_id = "C0001"
    /\ Len(order_matches) = 3
    /\ reply.text = "Which one would you like to cancel?"
    /\ Len(reply.items) = 2

\* C37: during a conversation every cancel_order or initiate_return call of a plan
\* that conforms to the routing schema (no confirm among its arguments) returns the
\* confirmation_required rejection, so nothing is approved and the action log and
\* the order records stay as they were for the whole session
C37_ConversationNeverActs ==
    /\ actionLog = <<>>
    /\ orders = OrdersFile
    /\ \A i \in DOMAIN tool_output :
          tool_output[i].tool \in {"cancel_order", "initiate_return"} =>
             tool_output[i].kind = "payload"
    /\ \A i \in DOMAIN plan.tool_calls :
          LET call == plan.tool_calls[i]
          IN  call.tool \in {"cancel_order", "initiate_return"} =>
                 /\ call.args.confirm = "absent"
                 /\ \E out \in {execute_tool_call(call.tool, call.args, user_input, <<>>,
                                                  "a1b2c3", actionLog)} :
                       /\ out.result.status = "rejected"
                       /\ out.result.reason = "confirmation_required:" \o call.tool
                       /\ out.result.ticket_id = None
                       /\ out.log = actionLog

\* in the second turn of a session a plan with a return call was executed: the call
\* was rejected and nothing was logged
C37_Witness ==
    /\ turns = 2
    /\ pc = "read"
    /\ replies = 1
    /\ \E i \in DOMAIN tool_output :
          tool_output[i].tool = "initiate_return" /\ tool_output[i].kind = "payload"
    /\ actionLog = <<>>

\* C38: every turn that emits a reply appends the utterance as a user message before
\* the reply, the customer-id and purchase short circuits included: every reply in
\* the history comes after the user message of its turn
C38_UserMessageBeforeReply ==
    \A i \in DOMAIN history :
        (history[i].role = "assistant" /\ history[i].kind = "reply") =>
            \E j \in 1..(i - 1) : history[j] = Message("user", "input", history[i].turn)

-----------------------------------------------------------------------------
(* The history of a session and the messages sent to the generation call *)

\* tool_message = f"TOOL RESULTS:\n{tool_output}" if tool_output else None
tool_message(out) == IF out = "" THEN None ELSE "TOOL RESULTS:\n" \o out

\* the history replaced by the system message and the messages of the turn
WithTurnOnly(h, u, out) ==
    <<h[1], Msg("user", u)>>
    \o (IF out = "" THEN <<>> ELSE <<Msg("assistant", tool_message(out))>>)

\* run(), lines 560-562 (and 460-462, 496-500, 520-522, 553-555): the utterance and
\* the tool-result message, if any, are appended to the history
WithTurn(h, u, out) ==
    Append(h, Msg("user", u))
    \o (IF out = "" THEN <<>> ELSE <<Msg("assistant", tool_message(out))>>)

\* the messages of the generation call with the tool output injected whenever
\* there is one
InjectAlways(h, use_memory, max_tokens, out) ==
    build_sliding_window(h, use_memory, max_tokens)
    \o (IF out # "" THEN <<Msg("assistant", tool_message(out))>> ELSE <<>>)

\* run(), lines 564-580: the window, and the tool output injected when there is
\* one and use_memory is false
current_turn_messages(h, use_memory, max_tokens, out) ==
    build_sliding_window(h, use_memory, max_tokens)
    \o (IF out # "" /\ ~use_memory
        THEN <<Msg("assistant", tool_message(out))>> ELSE <<>>)

\* what the user types, what the tools give back, what is replied
SessionInputs == {"hi", "where is my order"}
ToolOutputs == {"", "[orders] O0001 Placed"}
DirectReplies == {"Which product would you like to buy?"}
Responses == {"Sure.", Apology}

\* run(), lines 323-331: a session with its system prompt and max_history_tokens
InitSession ==
    /\ customer_id = None
    /\ indexPresent = TRUE
    /\ dataPresent = TRUE
    /\ ranking = <<1, 2, 3, 4, 5, 6>>
    /\ orders = OrdersFile
    /\ actionLog = <<>>
    /\ lastCall = NoCall
    /\ lastResult = NoResult
    /\ searched = FALSE
    /\ pc = "read"
    /\ user_input = ""
    /\ plan = ErrorPlan
    /\ tool_output = ""
    /\ \E sys \in SystemPrompts : history = <<sys>>
    /\ current_focus = NoFocus
    /\ events = <<>>
    /\ reply = NoReply
    /\ replies = 0
    /\ turns = 0
    /\ \E max_tokens \in Budgets :
          window = [use_memory |-> FALSE, max_tokens |-> max_tokens, messages |-> <<>>]
    /\ turn_matches = <<>>
    /\ engine = IdleEngine
    /\ parsed = NoParse
    /\ tts = IdleTTS

SessionFrame ==
    /\ UNCHANGED <<plan, current_focus, events, replies, turn_matches, engine, parsed, tts>>
    /\ UNCHANGED toolVars

\* run(), lines 341-361: a short circuit appends its reply alone
DirectTurn(u, text) ==
    /\ pc = "read"
    /\ turns < MaxTurns
    /\ user_input' = u
    /\ reply' = Reply(text, <<>>)
    /\ history' = Append(history, Msg("assistant", text))
    /\ turns' = turns + 1
    /\ UNCHANGED <<pc, tool_output, window>>
    /\ SessionFrame

\* run(), lines 435-558: a gate appends the utterance, the tool-result message and
\* its reply
GateTurn(u, out, text) ==
    /\ pc = "read"
    /\ turns < MaxTurns
    /\ user_input' = u
    /\ tool_output' = out
    /\ reply' = Reply(text, <<>>)
    /\ history' = Append(WithTurn(history, u, out), Msg("assistant", text))
    /\ turns' = turns + 1
    /\ UNCHANGED <<pc, window>>
    /\ SessionFrame

\* run(), lines 560-585: the final path up to the generation call
FinalPath(u, out, use_memory) ==
    /\ pc = "read"
    /\ turns < MaxTurns
    /\ user_input' = u
    /\ tool_output' = out
    /\ history' = WithTurn(history, u, out)
    /\ window' = [use_memory |-> use_memory, max_tokens |-> window.max_tokens,
                  messages |-> current_turn_messages(history', use_memory,
                                                     window.max_tokens, out)]
    /\ turns' = turns + 1
    /\ pc' = "chat"
    /\ UNCHANGED reply
    /\ SessionFrame

\* run(), lines 587-608: the response of the generation call is printed and appended
ChatReply(response_text) ==
    /\ pc = "chat"
    /\ reply' = Reply(response_text, <<>>)
    /\ history' = Append(history, Msg("assistant", response_text))
    /\ pc' = "read"
    /\ UNCHANGED <<user_input, tool_output, window, turns>>
    /\ SessionFrame

NextSession ==
    \/ \E u \in SessionInputs, text \in DirectReplies : DirectTurn(u, text)
    \/ \E u \in SessionInputs, out \in ToolOutputs, text \in DirectReplies :
          GateTurn(u, out, text)
    \/ \E u \in SessionInputs, out \in ToolOutputs, use_memory \in BOOLEAN :
          FinalPath(u, out, use_memory)
    \/ \E response_text \in Responses : ChatReply(response_text)

SpecSession == InitSession /\ [][NextSession]_vars

\* C21: across the turns of a session the history only grows by appends: the
\* history before a step is a prefix of the history after it, its first message is
\* always the system message, and the step that builds the window adds the utterance
\* and the tool-result message of the turn and changes nothing else of it
C21_HistoryAppendOnly ==
    [][/\ Len(history) <= Len(history')
       /\ SubSeq(history', 1, Len(history)) = history
       /\ history'[1].role = "system"
       /\ window' # window =>
             /\ Len(history') <= Len(history) + 2
             /\ history'[Len(history) + 1] = Msg("user", user_input')
             /\ Len(history') = Len(history) + 2 =>
                   history'[Len(history')] =
                       Msg("assistant", "TOOL RESULTS:\n" \o tool_output')]_vars

\* the second turn of a session has built a window that left messages out, and the
\* history holds the messages of both turns
C21_Witness ==
    /\ pc = "chat"
    /\ turns = 2
    /\ Len(history) = 6
    /\ window.use_memory
    /\ Len(window.messages) < Len(history)

\* C26: on the final path, when the turn produced tool output, the messages sent to
\* the generation call hold the tool-result message of the turn once: with
\* use_memory false it is the extra assistant message after the system message and
\* the utterance, with use_memory true it is the last message of the history, which
\* the window keeps for every max_tokens, and nothing is injected
C26_ToolMessageOnce ==
    (pc = "chat" /\ tool_output # "") =>
        LET tm == Msg("assistant", "TOOL RESULTS:\n" \o tool_output)
            sent == window.messages
        IN  /\ sent[Len(sent)] = tm
            /\ history[Len(history)] = tm
            /\ IF window.use_memory
               THEN \E i \in 2..Len(history) :
                       sent = <<history[1]>> \o SubSeq(history, i, Len(history))
               ELSE sent = <<history[1], Msg("user", user_input), tm>>

\* with use_memory true and a budget of 0 the window is the system message and the
\* tool-result message alone
C26_Witness ==
    /\ pc = "chat"
    /\ tool_output # ""
    /\ window.use_memory
    /\ window.max_tokens = 0
    /\ Len(history) >= 5
    /\ Len(window.messages) = 2

-----------------------------------------------------------------------------
(* The query parser: search_utils.parse_query *)

DigitValue ==
    [c \in Digits |->
        CASE c = "0" -> 0 [] c = "1" -> 1 [] c = "2" -> 2 [] c = "3" -> 3 [] c = "4" -> 4
          [] c = "5" -> 5 [] c = "6" -> 6 [] c = "7" -> 7 [] c = "8" -> 8 [] c = "9" -> 9]

\* the number a string of digits writes
ToInt(digits) ==
    LET n == Len(digits)
        V[i \in 0..n] == IF i = 0 THEN 0 ELSE V[i - 1] * 10 + DigitValue[Char(digits, i)]
    IN  V[n]

AllDigits(s) == s # "" /\ \A i \in 1..Len(s) : Char(s, i) \in Digits

IsDigitAt(t, i) == i >= 1 /\ i <= Len(t) /\ Char(t, i) \in Digits

\* str.replace(old, new) for a single character old
ReplaceChar(s, old, new) ==
    LET n == Len(s)
        R[i \in 0..n] ==
            IF i = 0 THEN ""
            ELSE R[i - 1] \o (IF Char(s, i) = old THEN new ELSE Char(s, i))
    IN  R[n]

\* _parse_number: the token lowercased, its commas removed, stripped, matched against
\* ^(\d+(?:\.\d+)?)(k)?$ and turned into int(float(...) [* 1000]); NoNumber for None.
\* The product with 1000 is taken over the first three decimals.
_parse_number(token) ==
    IF token = "" THEN NoNumber
    ELSE LET t == Strip(ReplaceChar(Lower(token), ",", ""))
             n == Len(t)
             k == n >= 1 /\ Char(t, n) = "k"
             body == IF k THEN SubSeq(t, 1, n - 1) ELSE t
             dots == {i \in 1..Len(body) : Char(body, i) = "."}
             whole == IF dots = {} THEN body ELSE SubSeq(body, 1, Min(dots) - 1)
             decimals == IF dots = {} THEN ""
                         ELSE SubSeq(body, Min(dots) + 1, Len(body))
             matches == AllDigits(whole) /\ (dots = {} \/ AllDigits(decimals))
             thousandths == ToInt(SubSeq(decimals \o "000", 1, 3))
         IN  IF ~matches THEN NoNumber
             ELSE IF k THEN ToInt(whole) * 1000 + thousandths
             ELSE ToInt(whole)

\* where (?:,\d{3})* ends when the text is matched up to position p
GroupsEnd(t, p) ==
    LET n == Len(t)
        G[i \in 0..n] ==
            IF /\ i >= 4
               /\ Char(t, n - i + 1) = ","
               /\ \A j \in (n - i + 2)..(n - i + 4) : Char(t, j) \in Digits
            THEN G[i - 4] ELSE n - i
    IN  G[n - p]

\* where \d{1,3}(?:,\d{3})*|\d+(?:\.\d+)?k? ends when matched at position i, 0 when
\* it does not match there. The first alternative takes at most three digits and
\* matches wherever a digit stands; the second one starts with a digit too, so it is
\* only tried where the first has failed and fails there as well.
NumberEnd(t, i) ==
    IF ~IsDigitAt(t, i) THEN 0
    ELSE LET d == IF IsDigitAt(t, i + 1)
                  THEN (IF IsDigitAt(t, i + 2) THEN 3 ELSE 2) ELSE 1
         IN  GroupsEnd(t, i + d - 1)

MatchAt(t, i, word) == i + Len(word) - 1 <= Len(t) /\ SubSeq(t, i, i + Len(word) - 1) = word

\* the position after the run of \s that starts at position i
SkipSpaces(t, i) ==
    LET n == Len(t)
        S[j \in 0..n] ==
            IF j > 0 /\ IsSpace(Char(t, n - j + 1)) THEN S[j - 1] ELSE n - j + 1
    IN  IF i > n THEN i ELSE S[n - i + 1]

\* re.search(r"(?:w1|w2|w3)\s+(<number>)", raw): group(1) of the leftmost match, ""
\* without a match
NumberAfter(raw, words) ==
    LET at == {i \in 1..Len(raw) :
                  \E w \in words :
                     /\ MatchAt(raw, i, w)
                     /\ SkipSpaces(raw, i + Len(w)) > i + Len(w)
                     /\ IsDigitAt(raw, SkipSpaces(raw, i + Len(w)))}
    IN  IF at = {} THEN ""
        ELSE LET i == Min(at)
                 w == CHOOSE w \in words : MatchAt(raw, i, w)
                 from == SkipSpaces(raw, i + Len(w))
             IN  SubSeq(raw, from, NumberEnd(raw, from))

Categories == {"electronics", "clothing", "home", "beauty", "sports", "toys", "kitchen"}

\* \b(word)\b matches t at position i
WordAt(t, i, word) ==
    /\ MatchAt(t, i, word)
    /\ BoundaryBefore(t, i)
    /\ BoundaryAfter(t, i + Len(word) - 1)

\* re.search(r"\b(electronics|...|kitchen)\b", raw): group(1), None without a match
CategoryIn(raw) ==
    LET at == {i \in 1..Len(raw) : \E c \in Categories : WordAt(raw, i, c)}
    IN  IF at = {} THEN None ELSE CHOOSE c \in Categories : WordAt(raw, Min(at), c)

\* the rating a match of \d+(?:\.\d+)? from position i writes, in tenths
RatingAt(raw, i) ==
    LET n == Len(raw)
        E[j \in 0..n] == IF j > 0 /\ IsDigitAt(raw, n - j + 1) THEN E[j - 1] ELSE n - j
        DigitsEnd(p) == IF p > n THEN n ELSE E[n - p + 1]
        w == DigitsEnd(i)
        f == IF w + 2 <= n /\ Char(raw, w + 1) = "." /\ IsDigitAt(raw, w + 2)
             THEN DigitsEnd(w + 2) ELSE w
    IN  ToInt(SubSeq(raw, i, w)) * 10
        + (IF f > w THEN DigitValue[Char(raw, w + 2)] ELSE 0)

\* re.search(r"\b(top rated|best)\b(?:\s*(?:above|over|>=|at least)\s*(\d+(?:\.\d+)?))?",
\* raw): float(group(2)), 4 without group 2, None without a match; in tenths
RatingIn(raw) ==
    LET at == {i \in 1..Len(raw) : \E w \in {"top rated", "best"} : WordAt(raw, i, w)}
    IN  IF at = {} THEN NoNumber
        ELSE LET i == Min(at)
                 w == CHOOSE w \in {"top rated", "best"} : WordAt(raw, i, w)
                 c == SkipSpaces(raw, i + Len(w))
                 cmp == {x \in {"above", "over", ">=", "at least"} : MatchAt(raw, c, x)}
             IN  IF cmp = {} THEN 40
                 ELSE LET x == CHOOSE x \in cmp : TRUE
                          d == SkipSpaces(raw, c + Len(x))
                      IN  IF IsDigitAt(raw, d) THEN RatingAt(raw, d) ELSE 40

SortIn(raw) ==
    IF Contains(raw, "cheapest") THEN "price_asc"
    ELSE IF Contains(raw, "fastest") THEN "delivery_time_days_asc"
    ELSE None

\* re.sub(<number>, " ", raw)
WithoutNumbers(raw) ==
    LET n == Len(raw)
        R[j \in 0..n] ==
            IF j = 0 THEN ""
            ELSE LET i == n - j + 1
                 IN  IF IsDigitAt(raw, i)
                     THEN " " \o R[n - NumberEnd(raw, i)]
                     ELSE Char(raw, i) \o R[j - 1]
    IN  R[n]

FilterWords ==
    {"under", "below", "less", "than", "above", "more", "over", "cheapest", "fastest",
     "top", "rated", "best"} \cup Categories

\* re.sub(r"\b(under|...|kitchen)\b", " ", cleaned)
WithoutWords(t) ==
    LET n == Len(t)
        R[j \in 0..n] ==
            IF j = 0 THEN ""
            ELSE LET i == n - j + 1
                     ws == {w \in FilterWords : WordAt(t, i, w)}
                 IN  IF ws # {}
                     THEN " " \o R[j - Len(CHOOSE w \in ws : TRUE)]
                     ELSE Char(t, i) \o R[j - 1]
    IN  R[n]

\* re.sub(r"\s+", " ", cleaned)
OneSpace(t) ==
    LET n == Len(t)
        R[j \in 0..n] ==
            IF j = 0 THEN ""
            ELSE LET i == n - j + 1
                 IN  IF IsSpace(Char(t, i))
                     THEN " " \o R[n - SkipSpaces(t, i) + 1]
                     ELSE Char(t, i) \o R[j - 1]
    IN  R[n]

\* parse_query
parse_query(text) ==
    IF text = None \/ text = "" THEN NoData("")
    ELSE LET raw == ReplaceChar(Lower(text), "$", " ")
             cleaned == Strip(OneSpace(WithoutWords(WithoutNumbers(raw))))
         IN  ParseData(IF cleaned = "" THEN text ELSE cleaned,
                       _parse_number(NumberAfter(raw, {"under", "below", "less than"})),
                       _parse_number(NumberAfter(raw, {"above", "more than", "over"})),
                       RatingIn(raw), CategoryIn(raw), SortIn(raw))

MaxWords == {"under", "below", "less than"}
MinWords == {"above", "more than", "over"}

\* the ways a price is written
PriceTokens == {"5", "50", "999", "1500", "1,500", "12,000", "20000", "2k", "1.5k"}

\* the queries parse_query is given
ParseTexts ==
    {before \o word \o " " \o price \o after :
        before \in {"", "laptop "}, word \in MaxWords \cup MinWords,
        price \in PriceTokens, after \in {"", " please"}}
    \cup {"", " ", "monitor", "cheapest monitor", "fastest kitchen mixer",
          "best over 4.5 toys", "top rated", "Top Rated at least 3 home",
          "monitor under $300 above 100", "under 500", "thunder 100"}

InitParse ==
    /\ customer_id = None
    /\ indexPresent = TRUE
    /\ dataPresent = TRUE
    /\ ranking = <<1, 2, 3, 4, 5, 6>>
    /\ orders = OrdersFile
    /\ actionLog = <<>>
    /\ lastCall = NoCall
    /\ lastResult = NoResult
    /\ searched = FALSE
    /\ IdleRun

\* one call of parse_query
ParseQuery(text) ==
    /\ parsed.query = None
    /\ parsed' = [query |-> text, data |-> parse_query(text)]
    /\ UNCHANGED <<pc, user_input, plan, tool_output, history, current_focus, events,
                   reply, replies, turns, window, turn_matches, engine, tts>>
    /\ UNCHANGED toolVars

NextParse == \E text \in ParseTexts : ParseQuery(text)

SpecParse == InitParse /\ [][NextParse]_vars

-----------------------------------------------------------------------------
(* The catalog search with its filters: CatalogSearchTool.search *)

\* the metadata of the catalog index; NoNumber and None stand for a missing field,
\* rating is kept in tenths
CatalogItems ==
    << [product_id |-> "P0001", price |-> 250, rating |-> 45,
        category |-> "Electronics", delivery_time_days |-> 3],
       [product_id |-> "P0002", price |-> 120, rating |-> 38,
        category |-> "electronics", delivery_time_days |-> 5],
       [product_id |-> "P0003", price |-> 40, rating |-> 42,
        category |-> "Kitchen", delivery_time_days |-> 2],
       [product_id |-> "P0004", price |-> NoNumber, rating |-> 47,
        category |-> "Kitchen", delivery_time_days |-> 1],
       [product_id |-> "P0005", price |-> 90, rating |-> NoNumber,
        category |-> None, delivery_time_days |-> NoNumber] >>

\* what the index ranks for a query: records of the metadata in the order of their
\* scores; an index that is out of step with the metadata leaves records out
CatalogRankings ==
    { <<>>, <<1, 2, 3, 4, 5>>, <<5, 4, 3, 2, 1>>, <<1, 2>>, <<4, 1>>, <<3, 5, 2>> }

\* a filter that looks at the prices alone
PassesPrice(r, data) ==
    /\ data.max_price # NoNumber => (r.price # NoNumber /\ r.price <= data.max_price)
    /\ data.min_price # NoNumber => (r.price # NoNumber /\ r.price >= data.min_price)

\* the four list comprehensions of search, lines 117-140
Passes(r, data) ==
    /\ data.max_price # NoNumber => (r.price # NoNumber /\ r.price <= data.max_price)
    /\ data.min_price # NoNumber => (r.price # NoNumber /\ r.price >= data.min_price)
    /\ data.min_rating # NoNumber =>
          (r.rating # NoNumber /\ r.rating >= data.min_rating)
    /\ (data.category # None /\ data.category # "") =>
          (r.category # None /\ r.category # "" /\ Lower(r.category) = data.category)

\* r.get(field) or 0
SortKey(r, sort) ==
    LET v == IF sort = "price_asc" THEN r.price ELSE r.delivery_time_days
    IN  IF v = NoNumber THEN 0 ELSE v

\* sorted(results, key=...): ascending, records with equal keys keep their order
Sorted(results, sort) ==
    LET n == Len(results)
        Rank(i) == Cardinality({j \in 1..n :
                       \/ SortKey(results[j], sort) < SortKey(results[i], sort)
                       \/ /\ SortKey(results[j], sort) = SortKey(results[i], sort)
                          /\ j < i}) + 1
    IN  [p \in 1..n |-> results[CHOOSE i \in 1..n : Rank(i) = p]]

\* the filters and the sort, lines 117-147 and again 154-182
FilterAndSort(results, data) ==
    LET kept == Filter(results, {r \in SeqToSet(results) : Passes(r, data)})
    IN  IF data.sort \in {"price_asc", "delivery_time_days_asc"}
        THEN Sorted(kept, data.sort) ELSE kept

\* search after its first line, with data the parser's result for the query
SearchParsed(data, query, k, ranked) ==
    LET cleaned_query == normalize_query(IF data.cleaned_query = "" THEN query
                                         ELSE data.cleaned_query)
        has_numeric == \/ data.max_price # NoNumber
                       \/ data.min_price # NoNumber
                       \/ data.min_rating # NoNumber
        candidate_k == IF _clamp_k(k) * 4 > 20 THEN _clamp_k(k) * 4 ELSE 20
        items == IndexItems(CatalogItems)
        found == IF cleaned_query = "" THEN items
                 ELSE VectorIndexSearch([i \in DOMAIN ranked |-> CatalogItems[ranked[i]]],
                                        cleaned_query, candidate_k)
    IN  IF found.raised
        THEN (IF cleaned_query = "" THEN Returned(<<>>) ELSE NotFound)
        ELSE LET results == FilterAndSort(found.value, data)
                 again == IF results = <<>> /\ cleaned_query # "" /\ has_numeric
                          THEN FilterAndSort(items.value, data) ELSE results
             IN  Returned(Take(again, _clamp_k(k)))

\* CatalogSearchTool.search(query, k) when the index ranks `ranked` for the query;
\* the _score the index adds to each record is left out
CatalogSearchTool_search(query, k, ranked) ==
    CHOOSE out \in {SearchParsed(data, query, k, ranked) : data \in {parse_query(query)}} :
        TRUE

\* the queries of the catalog searches
CatalogQueries ==
    {"", " ", "monitor", "cheapest monitor", "fastest kitchen mixer",
     "monitor under 100", "cheapest monitor under 100", "kitchen above 30",
     "best kitchen", "top rated above 4.5", "electronics under 1,000 over 100",
     "fastest under 300", "cheapest", "toys under 500"}

InitCatalog ==
    /\ customer_id = None
    /\ indexPresent \in BOOLEAN
    /\ dataPresent = TRUE
    /\ ranking \in CatalogRankings
    /\ orders = OrdersFile
    /\ actionLog = <<>>
    /\ lastCall = NoCall
    /\ lastResult = NoResult
    /\ searched = FALSE
    /\ IdleRun

\* one call of CatalogSearchTool.search
SearchCatalog(query, k) ==
    /\ lastCall = NoCall
    /\ \E out \in {CatalogSearchTool_search(query, k, ranking)} :
          lastResult' = IF out.raised THEN Raised(MissingIndex) ELSE Records(out.value)
    /\ lastCall' = Call("catalog.search", PlainArgs(query, None, k), "")
    /\ \E data \in {parse_query(query)} : parsed' = [query |-> query, data |-> data]
    /\ UNCHANGED <<customer_id, indexPresent, dataPresent, ranking, orders, actionLog,
                   searched>>
    /\ UNCHANGED <<pc, user_input, plan, tool_output, history, current_focus, events,
                   reply, replies, turns, window, turn_matches, engine, tts>>

NextCatalog ==
    \E query \in CatalogQueries, k \in {KAbsent, KInt(0), KInt(1), KInt(2), KInt(3)} :
        SearchCatalog(query, k)

SpecCatalog == InitCatalog /\ [][NextCatalog]_vars

-----------------------------------------------------------------------------
(* Claims about the query parser *)

\* the number written after the leftmost of the words that is followed by blanks and
\* a digit: the whole run of digits, commas and points, and a k that ends it
WrittenAfter(raw, words) ==
    LET n == Len(raw)
        at == {i \in 1..n :
                  \E w \in words :
                     /\ MatchAt(raw, i, w)
                     /\ SkipSpaces(raw, i + Len(w)) > i + Len(w)
                     /\ IsDigitAt(raw, SkipSpaces(raw, i + Len(w)))}
        E[j \in 0..n] ==
            IF j > 0 /\ Char(raw, n - j + 1) \in Digits \cup {",", "."}
            THEN E[j - 1] ELSE n - j
    IN  IF at = {} THEN ""
        ELSE LET i == Min(at)
                 w == CHOOSE w \in words : MatchAt(raw, i, w)
                 from == SkipSpaces(raw, i + Len(w))
                 to == E[n - from + 1]
             IN  SubSeq(raw, from,
                        IF to < n /\ Char(raw, to + 1) = "k" THEN to + 1 ELSE to)

\* C32: parse_query returns as max_price the whole number written after "under",
\* "below" or "less than" (plain digits of any length, digits with thousands
\* separators, digits with a trailing k multiplied by 1000), and as min_price the
\* number written the same way after "above", "more than" or "over"
C32_WholeNumberAfterWord ==
    parsed.query # None =>
        LET raw == ReplaceChar(Lower(parsed.query), "$", " ")
            upper == WrittenAfter(raw, MaxWords)
            lower == WrittenAfter(raw, MinWords)
        IN  /\ (upper # "" /\ ~Contains(upper, ".")) =>
                   parsed.data.max_price = _parse_number(upper)
            /\ (lower # "" /\ ~Contains(lower, ".")) =>
                   parsed.data.min_price = _parse_number(lower)

\* C39: every record the catalog search returns satisfies all the filters parsed
\* from the query (price <= max_price, price >= min_price, rating >= min_rating,
\* category equal to the parsed one, a record without the field being left out), on
\* the path over the records the index ranked and on the path over all items; with
\* a sort hint the records are in ascending order of the hinted field, and there are
\* at most clamp(k) of them
C39_ResultsPassFilters ==
    (lastCall.tool = "catalog.search" /\ lastResult.kind = "records") =>
        LET data == parsed.data
            got == lastResult.items
            k == IF lastCall.args.k.t # "int" THEN 5
                 ELSE IF lastCall.args.k.v < 1 THEN 1
                 ELSE IF lastCall.args.k.v > 20 THEN 20 ELSE lastCall.args.k.v
            Field(r) == IF data.sort = "price_asc" THEN r.price ELSE r.delivery_time_days
        IN  /\ Len(got) <= k
            /\ \A i \in DOMAIN got :
                  /\ data.max_price # NoNumber =>
                        (got[i].price # NoNumber /\ got[i].price <= data.max_price)
                  /\ data.min_price # NoNumber =>
                        (got[i].price # NoNumber /\ got[i].price >= data.min_price)
                  /\ data.min_rating # NoNumber =>
                        (got[i].rating # NoNumber /\ got[i].rating >= data.min_rating)
                  /\ data.category # None =>
                        (got[i].category # None /\ Lower(got[i].category) = data.category)
                  /\ \E j \in DOMAIN CatalogItems : got[i] = CatalogItems[j]
            /\ data.sort # None =>
                  \A i, j \in DOMAIN got :
                     (i < j /\ Field(got[i]) # NoNumber /\ Field(got[j]) # NoNumber) =>
                        Field(got[i]) <= Field(got[j])

\* "cheapest monitor under 100": none of the two records the index ranked costs
\* less than 100, so the search went over all items and returned the two that do,
\* the cheaper one first
C39_Witness ==
    /\ lastCall.tool = "catalog.search"
    /\ lastCall.args.query = "cheapest monitor under 100"
    /\ ranking = <<1, 2>>
    /\ parsed.data.max_price = 100
    /\ parsed.data.sort = "price_asc"
    /\ lastResult.kind = "records"
    /\ Len(lastResult.items) = 2
    /\ lastResult.items[1].product_id = "P0003"
    /\ lastResult.items[2].product_id = "P0005"

\* C36: on the final path the messages sent to the generation call hold the
\* utterance of the turn as a user message, for both values of use_memory, every
\* max_tokens and every size of the tool output of the turn
C36_UtteranceIsSent ==
    pc = "chat" =>
        \E i \in DOMAIN window.messages : window.messages[i] = Msg("user", user_input)

-----------------------------------------------------------------------------
(* The speech runner: utils/tts.py TTSRunner *)

\* the calls of start, speak and close that are followed
MaxCalls == 3

InitTTS ==
    /\ customer_id = None
    /\ indexPresent = TRUE
    /\ dataPresent = TRUE
    /\ ranking = <<1, 2, 3, 4, 5, 6>>
    /\ orders = OrdersFile
    /\ actionLog = <<>>
    /\ lastCall = NoCall
    /\ lastResult = NoResult
    /\ searched = FALSE
    /\ IdleRun

TTSFrame ==
    /\ UNCHANGED <<pc, user_input, plan, tool_output, history, current_focus, events,
                   reply, replies, turns, window, turn_matches, engine, parsed>>
    /\ UNCHANGED toolVars

At(c, where) == tts.caller[c].pc = where

\* the caller moves on, to `where`
Goes(t, c, where) == [t EXCEPT !.caller[c].pc = where]

\* where start() returns to: into speak, or to the caller of start
AfterStart(c) == IF tts.caller[c].op = "speak" THEN "put" ELSE "idle"

\* a thread calls start(), speak(text) with a text that is not empty, or close()
Begin(c, op) ==
    /\ At(c, "idle")
    /\ tts.calls < MaxCalls
    /\ tts' = [tts EXCEPT !.calls = tts.calls + 1,
                          !.caller[c] = [pc |-> op \o "_check", op |-> op,
                                         utt |-> IF op = "speak" THEN tts.calls + 1
                                                 ELSE 0]]
    /\ TTSFrame

\* start, line 84: if self._thread: return
StartCheck(c) ==
    /\ At(c, "start_check")
    /\ tts' = Goes(tts, c, IF tts.thread # 0 THEN AfterStart(c) ELSE "start_create")
    /\ TTSFrame

\* start, lines 86-87: the thread is created and started
StartCreate(c) ==
    /\ At(c, "start_create")
    /\ tts' = [Goes(tts, c, "start_wait") EXCEPT
                  !.thread = Len(tts.worker) + 1,
                  !.worker = Append(tts.worker, [pc |-> "run", item |-> 0, last |-> None])]
    /\ TTSFrame

\* start, line 88: self._ready.wait()
StartWait(c) ==
    /\ At(c, "start_wait")
    /\ tts.ready
    /\ tts' = Goes(tts, c, AfterStart(c))
    /\ TTSFrame

\* speak, lines 93-94: if not self._thread: self.start()
SpeakCheck(c) ==
    /\ At(c, "speak_check")
    /\ tts' = Goes(tts, c, IF tts.thread = 0 THEN "start_check" ELSE "put")
    /\ TTSFrame

\* speak, lines 95-96: the utterance is queued with its done event
SpeakPut(c) ==
    /\ At(c, "put")
    /\ tts' = [Goes(tts, c, "wait") EXCEPT !.queue = Append(tts.queue, tts.caller[c].utt)]
    /\ TTSFrame

\* speak, line 97: done.wait()
SpeakWait(c) ==
    /\ At(c, "wait")
    /\ tts.caller[c].utt \in tts.done
    /\ tts' = Goes(tts, c, "idle")
    /\ TTSFrame

\* close, line 100: if not self._thread: return
CloseCheck(c) ==
    /\ At(c, "close_check")
    /\ tts' = Goes(tts, c, IF tts.thread = 0 THEN "idle" ELSE "close_stop")
    /\ TTSFrame

\* close, line 102: self._stop.set()
CloseStop(c) ==
    /\ At(c, "close_stop")
    /\ tts' = [Goes(tts, c, "close_put") EXCEPT !.stop = TRUE]
    /\ TTSFrame

\* close, line 103: self._queue.put(None)
ClosePut(c) ==
    /\ At(c, "close_put")
    /\ tts' = [Goes(tts, c, "close_join") EXCEPT !.queue = Append(tts.queue, 0)]
    /\ TTSFrame

\* close, line 104: join(timeout=2) returns when the thread has ended or after two
\* seconds
CloseJoin(c) ==
    /\ At(c, "close_join")
    /\ tts' = Goes(tts, c, "close_clear")
    /\ TTSFrame

\* close, lines 105-106: self._thread = None
CloseClear(c) ==
    /\ At(c, "close_clear")
    /\ tts' = [Goes(tts, c, "idle") EXCEPT !.thread = 0]
    /\ TTSFrame

Working(w, where) == w \in DOMAIN tts.worker /\ tts.worker[w].pc = where

\* _run, line 63: self._ready.set()
WorkerReady(w) ==
    /\ Working(w, "run")
    /\ tts' = [tts EXCEPT !.ready = TRUE, !.worker[w].pc = "loop"]
    /\ TTSFrame

\* _run, line 64: while not self._stop.is_set()
WorkerLoop(w) ==
    /\ Working(w, "loop")
    /\ tts' = [tts EXCEPT !.worker[w].pc = IF tts.stop THEN "exited" ELSE "get"]
    /\ TTSFrame

\* _run, lines 65-68: the blocking get, and the break on None
WorkerGet(w) ==
    /\ Working(w, "get")
    /\ tts.queue # <<>>
    /\ tts' = [tts EXCEPT !.queue = Tail(tts.queue),
                          !.worker[w] = [pc |-> IF Head(tts.queue) = 0 THEN "exited"
                                                ELSE "speak",
                                         item |-> Head(tts.queue),
                                         last |-> tts.worker[w].last]]
    /\ TTSFrame

\* _run, lines 69-81: convert and play return or raise, and done is set either way
WorkerSpeak(w, outcome) ==
    /\ Working(w, "speak")
    /\ tts' = [tts EXCEPT !.done = tts.done \cup {tts.worker[w].item},
                          !.worker[w] = [pc |-> "loop", item |-> 0, last |-> outcome]]
    /\ TTSFrame

CallerStep(c) ==
    \/ \E op \in {"start", "speak", "close"} : Begin(c, op)
    \/ StartCheck(c)
    \/ StartCreate(c)
    \/ StartWait(c)
    \/ SpeakCheck(c)
    \/ SpeakPut(c)
    \/ SpeakWait(c)
    \/ CloseCheck(c)
    \/ CloseStop(c)
    \/ ClosePut(c)
    \/ CloseJoin(c)
    \/ CloseClear(c)

WorkerStep(w) ==
    \/ WorkerReady(w)
    \/ WorkerLoop(w)
    \/ WorkerGet(w)
    \/ \E outcome \in {"played", "error"} : WorkerSpeak(w, outcome)

NextTTS ==
    \/ \E c \in Callers : CallerStep(c)
    \/ \E w \in 1..MaxCalls : WorkerStep(w)

\* every thread that can take a step is scheduled in the end, and convert and play
\* return or raise
SpecTTS ==
    /\ InitTTS
    /\ [][NextTTS]_vars
    /\ \A c \in Callers : WF_vars(CallerStep(c))
    /\ \A w \in 1..MaxCalls : WF_vars(WorkerStep(w))

\* C40: speak with a text that is not empty always returns, for every interleaving
\* of start, speak and close: the worker sets the done event of every utterance that
\* was queued, so no caller waits forever
C40_SpeakReturns ==
    \A c \in Callers : (tts.caller[c].op = "speak") ~> (tts.caller[c].pc = "idle")

====
